---------------------------- MODULE Spec2Model ----------------------------
(***************************************************************************)
(* A model of the document-to-structured-data extraction pipeline of       *)
(* stoneage-be: PDFProcessor (classification, layout extraction, page by   *)
(* page OCR, table extraction), DocumentFormatter (reading-order text,     *)
(* bounded hints), LLMProcessor (JSON parsing, field reduction) and        *)
(* ExtractionOrchestrator.extract_data.                                    *)
(*                                                                         *)
(* Spec      one run of ExtractionOrchestrator.extract_data                *)
(* SpecLLM   one run of LLMProcessor.extract                               *)
(* SpecFmt   DocumentFormatter.blocks_to_text applied to a block list      *)
(* SpecHints DocumentFormatter.build_llm_hints applied to match lists      *)
(* SpecParse LLMProcessor.parse_json applied to a text, bare and in fences *)
(* SpecFields the field list of a request, parsed and defaulted            *)
(* SpecRouter one POST /extract request                                    *)
(* SpecPair  two runs of extract_data, interleaved                         *)
(* SpecPaths one download_excel or send_extraction_email request           *)
(* SpecJwks  calls of _get_public_key_for_kid as time passes               *)
(***************************************************************************)
EXTENDS Integers, Sequences, FiniteSets, TLC

VARIABLES
    \* ---- ExtractionOrchestrator.extract_data / PDFProcessor ----
    doc,          \* the PDF: per page, the text pypdf's extract_text() yields
    fields_arg,   \* the `fields` argument of extract_data (None or a list)
    pc,           \* position of the run
    fields,       \* the local `fields` after defaulting
    scan_i,       \* is_scanned: 1-based index of the page any() looks at next
    scanned,      \* is_scanned's return value, once it returned
    total_pages,  \* ocr_to_blocks: len(reader.pages)
    page_index,   \* ocr_to_blocks / extract_layout: zero-based loop index
    images,       \* ocr_to_blocks local `images` (unbound, or a list of rasters)
    image,        \* ocr_to_blocks local `image`  (unbound, or a raster)
    data,         \* ocr_to_blocks local `data`   (unbound, or OCR output)
    blocks,       \* the block list being built / returned
    tables,       \* extract_tables' result
    text,         \* the document text handed to the (bypassed) LLM stage
    result,       \* extract_data's returned map, once it returned
    files,        \* artifacts written by ExcelGenerator.create_excel
    error,        \* the exception that ended the run, if any
    trace,        \* instrumentation: the calls made so far, in order
    \* ---- LLMProcessor.extract ----
    lpc,          \* position of the run
    lfields,      \* the `fields` argument
    payload,      \* the JSON object or list the model's response embeds
    raw_response, \* call_model's return value
    attempts,     \* parse_json: the texts handed to json.loads, in order
    parsed,       \* parse_json's return value
    lresult,      \* extract's return value
    lerror,       \* the exception that ended the run, if any
    \* ---- DocumentFormatter.blocks_to_text ----
    fpc, fblocks, ftext,
    \* ---- DocumentFormatter.build_llm_hints ----
    hpc, regex_data, entities, hints,
    \* ---- LLMProcessor.parse_json on a text and on the text in fences ----
    jpc, jtext, jpayload, jdirect, jfenced,
    \* ---- the field list: the router's parsing, extract_data's default ----
    gpc, gform, garg, gfields,
    \* ---- POST /extract (extract_router.extract) ----
    rpc,          \* position of the handler
    filename,     \* file.filename
    form,         \* the `fields` form value
    user,         \* _user, once the handler read it
    tmp_path,     \* the local tmp_path
    tmp_files,    \* the temporary files that exist
    field_list,   \* the local field_list
    is_scanned,   \* the local is_scanned
    raw_row,      \* the local raw_row
    db,           \* the rows stored by ExtractionRepository, in order
    queued,       \* the background tasks added, in order
    cause,        \* the exception on its way out of the handler, if any
    responses,    \* what the handler returned or raised to the caller
    \* ---- two concurrent runs of extract_data ----
    runs,         \* per run: its inputs, position, locals and result
    dir,          \* generated_excel/: per file name, the run that wrote it last
    \* ---- GET /extract/excel/download and POST /extract/send-email ----
    handler,      \* which of the two handlers the request goes to
    path_arg,     \* the path argument (query `path`, or body.excel_path)
    caller,       \* _user
    disk,         \* the files and directories that exist, by their parts
    fs_calls,     \* instrumentation: the file system calls made, in order
    answer,       \* what the handler returned or raised
    \* ---- _get_public_key_for_kid and the JWKS cache ----
    jwks_url,     \* _get_jwks_url(): whether SUPABASE_URL gives a URL
    now,          \* time.time(), in seconds
    jwks_cache,   \* _jwks_cache: kid -> (public_key, expiry_time)
    last          \* instrumentation: the last call, and the cache before it

pipeVars == <<doc, fields_arg, pc, fields, scan_i, scanned, total_pages,
              page_index, images, image, data, blocks, tables, text, result,
              files, error, trace>>
llmVars  == <<lpc, lfields, payload, raw_response, attempts, parsed, lresult,
              lerror>>
fmtVars  == <<fpc, fblocks, ftext>>
hintVars == <<hpc, regex_data, entities, hints>>
parseVars == <<jpc, jtext, jpayload, jdirect, jfenced>>
formVars  == <<gpc, gform, garg, gfields>>
routerVars == <<rpc, filename, form, user, tmp_path, tmp_files, field_list,
                is_scanned, raw_row, db, queued, cause, responses>>
pairVars  == <<runs, dir>>
pathVars  == <<handler, path_arg, caller, disk, fs_calls, answer>>
cacheVars == <<jwks_url, now, jwks_cache, last>>
moreVars  == <<pathVars, cacheVars>>
restVars  == <<parseVars, formVars, routerVars, pairVars, moreVars>>
vars     == <<pipeVars, llmVars, fmtVars, hintVars, restVars>>

----------------------------------------------------------------------------
(* Bounds of the model. *)

MaxPages  == 2   \* pages of a document
MaxTokens == 1   \* OCR tokens / layout words per page
MaxFields == 2   \* requested fields per call
MaxText   == 3   \* tokens of a model response
MaxBlocks == 3   \* blocks handed to blocks_to_text
MaxMatches == 11 \* matches of one pattern or entity label in a text
MaxForm   == 4   \* tokens of a `fields` form value
MaxPath   == 4   \* tokens of a path argument
MaxClock  == 7   \* the clock stops after this many hundreds of seconds

----------------------------------------------------------------------------
(* Python values. *)

\* A name that is unbound (or deleted) is <<>>, a bound name is <<value>>.
Unbound == <<>>
Bound(v) == <<v>>

\* Python's None, where it stands among strings.
None == "<None>"

\* Truthiness of a str: only the empty string is falsy.
Truthy(s) == s # ""

\* All sequences over S of length at most n.
SeqsUpTo(S, n) == UNION {[1..k -> S] : k \in 0..n}

\* str.strip() is empty: the text holds nothing but whitespace.
Blank(s) == s \in {"", " "}


----------------------------------------------------------------------------
(* Inputs of a run of ExtractionOrchestrator.extract_data. *)

\* What pypdf's page.extract_text() can yield for a page: nothing (an
\* image-only page), whitespace only, or text.
PageTexts == {"", " ", "a"}
Docs == SeqsUpTo(PageTexts, MaxPages)

FieldNames == {"invoice_number", "excel_path"}
FieldLists == SeqsUpTo(FieldNames, MaxFields)
\* fields: list[str] | None = None
FieldArgs == {Unbound} \cup {Bound(l) : l \in FieldLists}

DefaultFields == <<"invoice_number", "invoice_date", "total_amount">>

\* One token of pytesseract.image_to_data(..., Output.DICT): data["text"][i],
\* data["left"][i], data["top"][i], data["width"][i], data["height"][i].
OcrTexts == {"", " ", "w"}
OcrTokens == {[text |-> t, left |-> 10, top |-> 20, width |-> 5, height |-> 8] :
                t \in OcrTexts}
OcrOutputs == SeqsUpTo(OcrTokens, MaxTokens)

\* One word of pdfplumber's page.extract_words().
LayoutWords == {[text |-> "a", x0 |-> 1, top |-> 2, x1 |-> 3, bottom |-> 4]}
LayoutOutputs == SeqsUpTo(LayoutWords, MaxTokens)

\* What extract_tables can return: tables are lists of rows, rows lists of
\* cells, a cell a string or None; a table or a row may be empty.
TableResults ==
    { <<>>,
      << <<>> >>,
      << << <<"q", None>> >> >>,
      << <<>>, << <<"q", None>> >> >>,
      << << <<>>, <<"r">> >>, << <<"s", "t">>, <<None>> >> >> }

\* Names uuid4 can give an artifact.
ArtifactPaths == {"generated_excel/extraction_0a.xlsx",
                  "generated_excel/extraction_0b.xlsx"}

\* An entry of the call log: a call on a page (zero-based), or a call on the
\* whole document.
Event(op, page) == [op |-> op, page |-> page]
Call(op) == [op |-> op, page |-> -1]

----------------------------------------------------------------------------
(* DocumentFormatter.blocks_to_text *)

\* dict.get(key, default)
Get(b, key, default) == IF key \in DOMAIN b THEN b[key] ELSE default

\* A key that orders left to right before top to bottom.
SortKey_x0_first(b) == <<Get(b, "page", 0), Get(b, "x0", 0), Get(b, "top", 0)>>

\* The sort key: (b.get("page", 0), b.get("top", 0), b.get("x0", 0)).
SortKey(b) == <<Get(b, "page", 0), Get(b, "top", 0), Get(b, "x0", 0)>>

\* Python's < on 3-tuples of numbers.
TupleLess(a, b) ==
    \/ a[1] < b[1]
    \/ a[1] = b[1] /\ a[2] < b[2]
    \/ a[1] = b[1] /\ a[2] = b[2] /\ a[3] < b[3]

\* sorted() is stable: an element goes after every element that is not
\* greater than it.
RECURSIVE InsertSorted(_, _)
InsertSorted(s, b) ==
    IF s = <<>> THEN <<b>>
    ELSE IF TupleLess(SortKey(b), SortKey(Head(s))) THEN <<b>> \o s
    ELSE <<Head(s)>> \o InsertSorted(Tail(s), b)

RECURSIVE sorted(_)
sorted(bs) ==
    IF bs = <<>> THEN <<>>
    ELSE InsertSorted(sorted(SubSeq(bs, 1, Len(bs) - 1)), bs[Len(bs)])

\* sep.join(parts)
RECURSIVE join(_, _)
join(sep, parts) ==
    IF parts = <<>> THEN ""
    ELSE IF Len(parts) = 1 THEN parts[1]
    ELSE parts[1] \o sep \o join(sep, Tail(parts))

\* (b["text"] for b in blocks_sorted if b.get("text"))
RECURSIVE truthy_texts(_)
truthy_texts(bs) ==
    IF bs = <<>> THEN <<>>
    ELSE (IF Truthy(Get(Head(bs), "text", "")) THEN <<Head(bs).text>> ELSE <<>>)
         \o truthy_texts(Tail(bs))

blocks_to_text(bs) == join(" ", truthy_texts(sorted(bs)))

----------------------------------------------------------------------------
(* ExtractionOrchestrator._tables_to_text *)

\* " | ".join(str(c) if c is not None else "" for c in row)
row_text(row) == join(" | ", [i \in 1..Len(row) |-> IF row[i] = None THEN "" ELSE row[i]])

RECURSIVE row_parts(_)
row_parts(table) ==
    IF table = <<>> THEN <<>>
    ELSE (IF Head(table) # <<>> THEN <<row_text(Head(table))>> ELSE <<>>)
         \o row_parts(Tail(table))

\* Headers numbered by position among the non-empty tables only.
RECURSIVE table_parts_numbering_non_empty(_, _)
table_parts_numbering_non_empty(ts, i) ==
    IF i > Len(ts) THEN <<>>
    ELSE (IF ts[i] = <<>> THEN <<>>
          ELSE <<"\n[Table "
                   \o ToString(Cardinality({j \in 1..i : ts[j] # <<>>}))
                   \o "]">> \o row_parts(ts[i]))
         \o table_parts_numbering_non_empty(ts, i + 1)

\* parts, for the tables from position i (1-based) on
RECURSIVE table_parts(_, _)
table_parts(ts, i) ==
    IF i > Len(ts) THEN <<>>
    ELSE (IF ts[i] = <<>> THEN <<>>
          ELSE <<"\n[Table " \o ToString(i) \o "]">> \o row_parts(ts[i]))
         \o table_parts(ts, i + 1)

tables_to_text(ts) == join("\n", table_parts(ts, 1))


----------------------------------------------------------------------------
(* One run of ExtractionOrchestrator.extract_data. *)

llmIdle  == /\ lpc = "idle" /\ lfields = <<>> /\ payload = <<>>
            /\ raw_response = <<>> /\ attempts = <<>> /\ parsed = <<>>
            /\ lresult = <<>> /\ lerror = <<>>
fmtIdle  == fpc = "idle" /\ fblocks = <<>> /\ ftext = ""
hintIdle == hpc = "idle" /\ regex_data = <<>> /\ entities = <<>> /\ hints = <<>>
parseIdle == /\ jpc = "idle" /\ jtext = <<>> /\ jpayload = <<>>
             /\ jdirect = <<>> /\ jfenced = <<>>
formIdle  == gpc = "idle" /\ gform = <<>> /\ garg = <<>> /\ gfields = <<>>
routerIdle == /\ rpc = "idle" /\ filename = <<>> /\ form = <<>> /\ user = <<>>
              /\ tmp_path = <<>> /\ tmp_files = {} /\ field_list = <<>>
              /\ is_scanned = <<>> /\ raw_row = <<>> /\ db = <<>>
              /\ queued = <<>> /\ cause = <<>> /\ responses = <<>>
pairIdle  == runs = <<>> /\ dir = <<>>
pathIdle  == /\ handler = "idle" /\ path_arg = <<>> /\ caller = <<>>
             /\ disk = {} /\ fs_calls = <<>> /\ answer = <<>>
cacheIdle == jwks_url = FALSE /\ now = 0 /\ jwks_cache = <<>> /\ last = <<>>
moreIdle  == pathIdle /\ cacheIdle
restIdle  == parseIdle /\ formIdle /\ routerIdle /\ pairIdle /\ moreIdle
pipeIdle == /\ doc = <<>> /\ fields_arg = Unbound /\ pc = "idle" /\ fields = <<>>
            /\ scan_i = 1 /\ scanned = Unbound /\ total_pages = 0
            /\ page_index = 0 /\ images = Unbound /\ image = Unbound
            /\ data = Unbound /\ blocks = <<>> /\ tables = <<>> /\ text = ""
            /\ result = Unbound /\ files = {} /\ error = Unbound /\ trace = <<>>

Init ==
    /\ doc \in Docs
    /\ fields_arg \in FieldArgs
    /\ pc = "start"
    /\ fields = <<>>
    /\ scan_i = 1
    /\ scanned = Unbound
    /\ total_pages = 0
    /\ page_index = 0
    /\ images = Unbound /\ image = Unbound /\ data = Unbound
    /\ blocks = <<>> /\ tables = <<>> /\ text = ""
    /\ result = Unbound
    /\ files = {}
    /\ error = Unbound
    /\ trace = <<>>
    /\ llmIdle /\ fmtIdle /\ hintIdle /\ restIdle

others == <<llmVars, fmtVars, hintVars, restVars>>
ocrLocals == <<images, image, data>>

\* An exception leaves the function and, nothing catching it in
\* PDFProcessor.extract_data or ExtractionOrchestrator.extract_data, the run.
raise(what, page) ==
    /\ pc' = "raised"
    /\ error' = Bound([what |-> what, page |-> page])

\* orchestrator.py line 23: fields = fields or [default list]
default_fields(arg) ==
    IF arg = Unbound \/ arg[1] = <<>> THEN DefaultFields ELSE arg[1]

extract_data_begin ==
    /\ pc = "start"
    /\ fields' = default_fields(fields_arg)
    /\ pc' = "is_scanned"
    /\ trace' = Append(trace, Call("is_scanned"))
    /\ UNCHANGED <<doc, fields_arg, scan_i, scanned, total_pages, page_index,
                   ocrLocals, blocks, tables, text, result, files, error, others>>

\* A classifier that takes a whitespace-only page for an empty one.
page_has_text_stripped(t) == ~Blank(t)

\* bool(page.extract_text())
page_has_text(t) == Truthy(t)

\* is_scanned: PdfReader(file_path) on a file pypdf cannot read.
is_scanned_unreadable ==
    /\ pc = "is_scanned" /\ scan_i = 1
    /\ raise("PdfReadError", -1)
    /\ UNCHANGED <<doc, fields_arg, fields, scan_i, scanned, total_pages,
                   page_index, ocrLocals, blocks, tables, text, result, files,
                   trace, others>>

\* is_scanned: any() pulls the next page's text from the generator and stops
\* at the first truthy one.
is_scanned_page ==
    /\ pc = "is_scanned" /\ scan_i <= Len(doc)
    /\ trace' = Append(trace, Event("extract_text", scan_i - 1))
    /\ IF page_has_text(doc[scan_i])
       THEN /\ scanned' = Bound(FALSE)
            /\ pc' = "dispatch"
            /\ UNCHANGED scan_i
       ELSE /\ scan_i' = scan_i + 1
            /\ UNCHANGED <<scanned, pc>>
    /\ UNCHANGED <<doc, fields_arg, fields, total_pages, page_index, ocrLocals,
                   blocks, tables, text, result, files, error, others>>

\* is_scanned: the generator is exhausted, any() is False.
is_scanned_exhausted ==
    /\ pc = "is_scanned" /\ scan_i > Len(doc)
    /\ scanned' = Bound(TRUE)
    /\ pc' = "dispatch"
    /\ UNCHANGED <<doc, fields_arg, fields, scan_i, total_pages, page_index,
                   ocrLocals, blocks, tables, text, result, files, error, trace,
                   others>>

\* A dispatch with the two branches swapped.
extractor_for_swapped(is_scanned_result) ==
    IF is_scanned_result THEN "extract_layout" ELSE "ocr_to_blocks"

\* PDFProcessor.extract_data lines 90-93: the extractor the decision selects.
extractor_for(is_scanned_result) ==
    IF is_scanned_result THEN "ocr_to_blocks" ELSE "extract_layout"

\* The call of the selected extractor, up to its loop: ocr_to_blocks lines
\* 49-54, extract_layout lines 25-26.
extract_data_dispatch ==
    /\ pc = "dispatch"
    /\ LET f == extractor_for(scanned[1]) IN
        /\ trace' = Append(trace, Call(f))
        /\ pc' = IF f = "ocr_to_blocks" THEN "ocr_loop" ELSE "layout_loop"
    /\ total_pages' = Len(doc)
    /\ page_index' = 0
    /\ blocks' = <<>>
    /\ UNCHANGED <<doc, fields_arg, fields, scan_i, scanned, ocrLocals, tables,
                   text, result, files, error, others>>


----------------------------------------------------------------------------
(* PDFProcessor.ocr_to_blocks, one step of its loop body at a time. *)

\* Lines 73-80: the block of token tok recognised on page p.
ocr_block(tok, p) ==
    [text   |-> tok.text,
     x0     |-> tok.left,
     top    |-> tok.top,
     x1     |-> tok.left + tok.width,
     bottom |-> tok.top + tok.height,
     page   |-> p]

\* A loop that makes a block of every token, whitespace or not.
page_blocks_unfiltered(toks, p) == [i \in 1..Len(toks) |-> ocr_block(toks[i], p)]

\* Lines 71-80: the blocks of one page's tokens, `if text.strip()`.
RECURSIVE page_blocks(_, _)
page_blocks(toks, p) ==
    IF toks = <<>> THEN <<>>
    ELSE (IF ~Blank(Head(toks).text) THEN <<ocr_block(Head(toks), p)>> ELSE <<>>)
         \o page_blocks(Tail(toks), p)

\* Line 56: the loop goes on to the next page.
ocr_next_page ==
    /\ pc = "ocr_loop" /\ page_index < total_pages
    /\ pc' = "ocr_convert"
    /\ UNCHANGED <<doc, fields_arg, fields, scan_i, scanned, total_pages,
                   page_index, ocrLocals, blocks, tables, text, result, files,
                   error, trace, others>>

\* Lines 60-66: convert_from_path rasterizes page page_index + 1 alone and
\* returns a list of images (one, or none when poppler renders nothing).
ocr_convert ==
    /\ pc = "ocr_convert"
    /\ \E rendered \in {<<page_index>>, <<>>} : images' = Bound(rendered)
    /\ trace' = Append(trace, Event("convert_from_path", page_index))
    /\ pc' = "ocr_index"
    /\ UNCHANGED <<doc, fields_arg, fields, scan_i, scanned, total_pages,
                   page_index, image, data, blocks, tables, text, result, files,
                   error, others>>

\* Line 67: image = images[0]
ocr_index ==
    /\ pc = "ocr_index"
    /\ IF images[1] = <<>>
       THEN /\ raise("IndexError", page_index)
            /\ trace' = Append(trace, Event("failed", page_index))
            /\ UNCHANGED image
       ELSE /\ image' = Bound(images[1][1])
            /\ pc' = "ocr_data"
            /\ UNCHANGED <<error, trace>>
    /\ UNCHANGED <<doc, fields_arg, fields, scan_i, scanned, total_pages,
                   page_index, images, data, blocks, tables, text, result, files,
                   others>>

\* Line 69: data = pytesseract.image_to_data(image, ...)
ocr_image_to_data ==
    /\ pc = "ocr_data"
    /\ \E toks \in OcrOutputs : data' = Bound([page |-> image[1], toks |-> toks])
    /\ trace' = Append(trace, Event("image_to_data", page_index))
    /\ pc' = "ocr_append"
    /\ UNCHANGED <<doc, fields_arg, fields, scan_i, scanned, total_pages,
                   page_index, images, image, blocks, tables, text, result,
                   files, error, others>>

\* A loop body that catches the page's exception and goes on with the
\* next page.
ocr_page_fails_skipped ==
    /\ pc \in {"ocr_convert", "ocr_data"}
    /\ trace' = Append(trace, Event("failed", page_index))
    /\ pc' = "ocr_release"
    /\ UNCHANGED <<doc, fields_arg, fields, scan_i, scanned, total_pages,
                   page_index, ocrLocals, blocks, tables, text, result, files,
                   error, others>>

\* Lines 60-69: convert_from_path or image_to_data raises on this page. The
\* loop has no handler, so the exception leaves ocr_to_blocks.
ocr_page_fails ==
    /\ pc \in {"ocr_convert", "ocr_data"}
    /\ raise(IF pc = "ocr_convert" THEN "PDFPageCountError" ELSE "TesseractError",
             page_index)
    /\ trace' = Append(trace, Event("failed", page_index))
    /\ UNCHANGED <<doc, fields_arg, fields, scan_i, scanned, total_pages,
                   page_index, ocrLocals, blocks, tables, text, result, files,
                   others>>

\* Lines 71-80
ocr_append ==
    /\ pc = "ocr_append"
    /\ blocks' = blocks \o page_blocks(data[1].toks, page_index)
    /\ pc' = "ocr_release"
    /\ UNCHANGED <<doc, fields_arg, fields, scan_i, scanned, total_pages,
                   page_index, ocrLocals, tables, text, result, files, error,
                   trace, others>>

\* A loop body without the del: the names keep the page's image and data
\* until they are bound again.
ocr_release_without_del ==
    /\ pc = "ocr_release"
    /\ trace' = Append(trace, Event("release", page_index))
    /\ page_index' = page_index + 1
    /\ pc' = "ocr_loop"
    /\ UNCHANGED <<doc, fields_arg, fields, scan_i, scanned, total_pages,
                   ocrLocals, blocks, tables, text, result, files, error, others>>

\* Lines 83-84: del image, images, data; gc.collect(). Then the next
\* iteration.
ocr_release ==
    /\ pc = "ocr_release"
    /\ images' = Unbound /\ image' = Unbound /\ data' = Unbound
    /\ trace' = Append(trace, Event("release", page_index))
    /\ page_index' = page_index + 1
    /\ pc' = "ocr_loop"
    /\ UNCHANGED <<doc, fields_arg, fields, scan_i, scanned, total_pages,
                   blocks, tables, text, result, files, error, others>>

\* Lines 86-87: return blocks, to PDFProcessor.extract_data line 95.
ocr_return ==
    /\ pc = "ocr_loop" /\ page_index >= total_pages
    /\ trace' = Append(trace, Call("ocr_to_blocks returned"))
    /\ pc' = "tables"
    /\ UNCHANGED <<doc, fields_arg, fields, scan_i, scanned, total_pages,
                   page_index, ocrLocals, blocks, tables, text, result, files,
                   error, others>>

\* The pages whose raster a local of ocr_to_blocks refers to.
held_images ==
    (IF image = Unbound THEN {} ELSE {image[1]})
    \cup (IF images = Unbound THEN {} ELSE {images[1][i] : i \in DOMAIN images[1]})

\* The pages whose OCR output a local of ocr_to_blocks refers to.
held_data == IF data = Unbound THEN {} ELSE {data[1].page}

----------------------------------------------------------------------------
(* PDFProcessor.extract_layout and extract_tables *)

\* Lines 27-30: one page's words, each tagged with its page.
extract_layout_page ==
    /\ pc = "layout_loop" /\ page_index < total_pages
    /\ \E words \in LayoutOutputs :
         blocks' = blocks \o
            [i \in 1..Len(words) |->
                [text |-> words[i].text, x0 |-> words[i].x0, top |-> words[i].top,
                 x1 |-> words[i].x1, bottom |-> words[i].bottom,
                 page |-> page_index]]
    /\ trace' = Append(trace, Event("extract_words", page_index))
    /\ page_index' = page_index + 1
    /\ UNCHANGED <<doc, fields_arg, pc, fields, scan_i, scanned, total_pages,
                   ocrLocals, tables, text, result, files, error, others>>

\* Line 31: return blocks
extract_layout_return ==
    /\ pc = "layout_loop" /\ page_index >= total_pages
    /\ trace' = Append(trace, Call("extract_layout returned"))
    /\ pc' = "tables"
    /\ UNCHANGED <<doc, fields_arg, fields, scan_i, scanned, total_pages,
                   page_index, ocrLocals, blocks, tables, text, result, files,
                   error, others>>

\* A pipeline that extracts tables on the layout path only.
extract_tables_on_layout_path_only ==
    /\ pc = "tables"
    /\ IF scanned = Bound(TRUE)
       THEN UNCHANGED <<tables, trace>>
       ELSE /\ tables' \in TableResults
            /\ trace' = Append(trace, Call("extract_tables"))
    /\ pc' = "format"
    /\ UNCHANGED <<doc, fields_arg, fields, scan_i, scanned, total_pages,
                   page_index, ocrLocals, blocks, text, result, files, error,
                   others>>

\* Lines 33-38 and 95-100: the tables of all pages; extract_data returns
\* {"blocks": blocks, "tables": tables}.
extract_tables ==
    /\ pc = "tables"
    /\ tables' \in TableResults
    /\ trace' = Append(trace, Call("extract_tables"))
    /\ pc' = "format"
    /\ UNCHANGED <<doc, fields_arg, fields, scan_i, scanned, total_pages,
                   page_index, ocrLocals, blocks, text, result, files, error,
                   others>>

\* pdfplumber raises while the tables are extracted.
extract_tables_fails ==
    /\ pc = "tables"
    /\ raise("PDFSyntaxError", -1)
    /\ trace' = Append(trace, Call("extract_tables"))
    /\ UNCHANGED <<doc, fields_arg, fields, scan_i, scanned, total_pages,
                   page_index, ocrLocals, blocks, tables, text, result, files,
                   others>>

----------------------------------------------------------------------------
(* ExtractionOrchestrator.extract_data lines 25-40 *)

\* Lines 25-29: the formatter's text, then the flattened tables after it.
document_text(bs, ts) ==
    LET clean_text == blocks_to_text(bs)
        table_text == tables_to_text(ts)
    IN  IF ts # <<>> /\ table_text # ""
        THEN clean_text \o "\n\n" \o table_text
        ELSE clean_text

\* format_document also derives the hints (regex_extract, extract_entities,
\* build_llm_hints); with the LLM stage bypassed (lines 30-37) they are a
\* local that nothing reads, and the run keeps only the text.
format_document ==
    /\ pc = "format"
    /\ text' = document_text(blocks, tables)
    /\ trace' = Append(trace, Call("format_document"))
    /\ pc' = "excel"
    /\ UNCHANGED <<doc, fields_arg, fields, scan_i, scanned, total_pages,
                   page_index, ocrLocals, blocks, tables, result, files, error,
                   others>>

\* Line 38: result = {f: None for f in fields}
null_result(fs) == [f \in {fs[i] : i \in DOMAIN fs} |-> None]

\* Line 40: {**result, "excel_path": str(excel_path)}
with_excel_path(r, path) ==
    [k \in DOMAIN r \cup {"excel_path"} |-> IF k = "excel_path" THEN path ELSE r[k]]

\* Lines 38-40, with ExcelGenerator.create_excel writing the artifact.
create_excel_and_return ==
    /\ pc = "excel"
    /\ \E path \in ArtifactPaths :
        /\ files' = files \cup {path}
        /\ result' = Bound(with_excel_path(null_result(fields), path))
    /\ trace' = Append(trace, Call("create_excel"))
    /\ pc' = "returned"
    /\ UNCHANGED <<doc, fields_arg, fields, scan_i, scanned, total_pages,
                   page_index, ocrLocals, blocks, tables, text, error, others>>

\* df.to_excel raises: no artifact, no result.
create_excel_fails ==
    /\ pc = "excel"
    /\ raise("OSError", -1)
    /\ trace' = Append(trace, Call("create_excel"))
    /\ UNCHANGED <<doc, fields_arg, fields, scan_i, scanned, total_pages,
                   page_index, ocrLocals, blocks, tables, text, result, files,
                   others>>

Next ==
    \/ extract_data_begin
    \/ is_scanned_unreadable
    \/ is_scanned_page
    \/ is_scanned_exhausted
    \/ extract_data_dispatch
    \/ ocr_next_page
    \/ ocr_convert
    \/ ocr_index
    \/ ocr_image_to_data
    \/ ocr_page_fails
    \/ ocr_append
    \/ ocr_release
    \/ ocr_return
    \/ extract_layout_page
    \/ extract_layout_return
    \/ extract_tables
    \/ extract_tables_fails
    \/ format_document
    \/ create_excel_and_return
    \/ create_excel_fails

Spec == Init /\ [][Next]_vars


----------------------------------------------------------------------------
(* Properties of a run of extract_data. *)

\* The positions of the log holding a call op on page p.
At(op, p) == {i \in DOMAIN trace : trace[i] = Event(op, p)}
Ops(ops) == {i \in DOMAIN trace : trace[i].op \in ops}
Pages(op) == {trace[i].page : i \in Ops({op})}

\* The run is past the block extractor, which returned.
BlocksReturned ==
    \/ pc \in {"tables", "format", "excel", "returned"}
    \/ pc = "raised" /\ error[1].what \in {"PDFSyntaxError", "OSError"}

\* C1: in ocr_to_blocks at most one page's raster and OCR data is held at
\* any point, and it is the current page's; the rasterization of a page
\* begins with nothing held, after the release of the page before it; and
\* nothing is held once ocr_to_blocks has returned.
C1_OnePageResident ==
    /\ Cardinality(held_images \cup held_data) <= 1
    /\ held_images \cup held_data \subseteq {page_index}
    /\ pc \in {"ocr_loop", "ocr_convert"} => held_images \cup held_data = {}
    /\ \A i \in Ops({"convert_from_path"}) :
         trace[i].page > 0 =>
           \E j \in At("release", trace[i].page - 1) : j < i
    /\ BlocksReturned => held_images \cup held_data = {}

\* C1's case: the second page is about to be rasterized, the first page's
\* image and OCR data having been held and released.
C1_Witness ==
    /\ pc = "ocr_convert" /\ page_index = 1
    /\ At("image_to_data", 0) # {} /\ At("release", 0) # {}

\* C2: once rasterization or OCR failed on a page, the run has ended in that
\* page's error: nothing was called after the failure, ocr_to_blocks did
\* not return, and extract_data returned no result.
C2_PageFailureIsFatal ==
    \A i \in Ops({"failed"}) :
        /\ i = Len(trace)
        /\ pc = "raised"
        /\ error # Unbound /\ error[1].page = trace[i].page
        /\ result = Unbound
        /\ Ops({"ocr_to_blocks returned", "extract_tables", "format_document",
                "create_excel"}) = {}
        /\ \A j \in Ops({"convert_from_path", "image_to_data", "release"}) :
             trace[j].page <= trace[i].page

\* C2's case: OCR failed on the second page, blocks of the first page
\* having been collected.
C2_Witness ==
    /\ pc = "raised" /\ error[1].page = 1 /\ error[1].what = "TesseractError"
    /\ blocks # <<>>

OcrOps == {"ocr_to_blocks", "convert_from_path", "image_to_data", "release",
           "failed", "ocr_to_blocks returned"}
LayoutOps == {"extract_layout", "extract_words", "extract_layout returned"}

\* C3: extract_data runs one block extractor, the one is_scanned's result
\* selects, at most once and over every page; no call of the other
\* extractor is made, and every block is one of the selected extractor's.
C3_OneExtractor ==
    /\ scanned = Unbound => Ops(OcrOps \cup LayoutOps) = {}
    /\ scanned = Bound(TRUE) =>
         /\ Ops(LayoutOps) = {}
         /\ Cardinality(Ops({"ocr_to_blocks"})) = (IF pc = "dispatch" THEN 0 ELSE 1)
         /\ \A i \in DOMAIN blocks : blocks[i].text \in OcrTexts
         /\ BlocksReturned => Pages("image_to_data") = 0..(Len(doc) - 1)
    /\ scanned = Bound(FALSE) =>
         /\ Ops(OcrOps) = {}
         /\ Cardinality(Ops({"extract_layout"})) = (IF pc = "dispatch" THEN 0 ELSE 1)
         /\ \A i \in DOMAIN blocks :
              blocks[i].text \in {w.text : w \in LayoutWords}
         /\ BlocksReturned => Pages("extract_words") = 0..(Len(doc) - 1)

\* C3's case: a document with an image-only page and a text page went
\* through the layout extractor, which returned blocks.
C3_Witness ==
    /\ pc = "tables" /\ blocks # <<>>
    /\ \E i, j \in DOMAIN doc : doc[i] = "" /\ doc[j] # ""

\* The zero-based index of the first page that yields text, Len(doc) if
\* there is none.
FirstTextPage ==
    IF \A i \in DOMAIN doc : doc[i] = "" THEN Len(doc)
    ELSE (CHOOSE i \in DOMAIN doc :
            doc[i] # "" /\ \A j \in 1..(i - 1) : doc[j] = "") - 1

\* C4: is_scanned returns true iff every page yields the empty text (so
\* true for a document without pages), and it returns false at the first
\* page that yields text, without reading a later page.
C4_IsScanned ==
    scanned # Unbound =>
        /\ scanned[1] = (\A i \in DOMAIN doc : doc[i] = "")
        /\ scanned[1] => Pages("extract_text") = 0..(Len(doc) - 1)
        /\ ~scanned[1] => Pages("extract_text") = 0..FirstTextPage

\* C4's case: a mixed document, image-only page first, classified not
\* scanned.
C4_Witness ==
    /\ Len(doc) = 2 /\ doc[1] = "" /\ doc[2] # ""
    /\ scanned = Bound(FALSE)

\* C10: for a non-empty list of requested fields, the returned map holds
\* every requested field mapped to null, no key besides the requested
\* fields and excel_path, and under excel_path the written artifact.
C10_NullFieldsAndArtifact ==
    (pc = "returned" /\ fields_arg # Unbound /\ fields_arg[1] # <<>>) =>
        LET requested == {fields_arg[1][i] : i \in DOMAIN fields_arg[1]}
            r == result[1]
        IN  /\ \A f \in requested : f \in DOMAIN r /\ r[f] = None
            /\ DOMAIN r \subseteq requested \cup {"excel_path"}
            /\ "excel_path" \in DOMAIN r /\ r["excel_path"] \in files


\* The stage a logged call belongs to: 1 classification, 2 block extraction,
\* 3 table extraction, 4 formatting, 5 artifact writing; 0 for a call that
\* does not start a stage.
StageOf(op) ==
    CASE op = "is_scanned" -> 1
      [] op \in {"ocr_to_blocks", "extract_layout"} -> 2
      [] op = "extract_tables" -> 3
      [] op = "format_document" -> 4
      [] op = "create_excel" -> 5
      [] OTHER -> 0
StageCalls == {i \in DOMAIN trace : StageOf(trace[i].op) > 0}

\* C11: in a run of extract_data the stages are called in the order
\* classification, one block extractor, table extraction, formatting,
\* artifact writer, each at most once and none before the one before it;
\* table extraction is called after the OCR extractor and after the layout
\* extractor alike; a run that returned called the artifact writer, and the
\* artifact writer is called only with no error raised and the block
\* extractor returned.
C11_StageOrder ==
    /\ \A i, j \in StageCalls :
         i < j => StageOf(trace[i].op) < StageOf(trace[j].op)
    /\ \A j \in StageCalls :
         StageOf(trace[j].op) > 1 =>
           \E i \in StageCalls :
             i < j /\ StageOf(trace[i].op) = StageOf(trace[j].op) - 1
    /\ pc \in {"format", "excel", "returned"} =>
         /\ Ops({"extract_tables"}) # {}
         /\ Ops({"ocr_to_blocks returned", "extract_layout returned"}) # {}
    /\ pc = "returned" => Cardinality(Ops({"create_excel"})) = 1
    /\ \A i \in Ops({"create_excel"}) :
         /\ i = Len(trace)
         /\ Ops({"failed"}) = {}
         /\ error # Unbound => error[1].what = "OSError"
         /\ {StageOf(trace[j].op) : j \in StageCalls} = 1..5

\* C11's case: a run over a two-page scan returned, having gone through the
\* OCR extractor and table extraction.
C11_Witness ==
    /\ pc = "returned" /\ Len(doc) = 2
    /\ Ops({"ocr_to_blocks"}) # {} /\ Ops({"extract_tables"}) # {}

\* What the flattened tables read, for each result of extract_tables that
\* has a non-empty table: a header line per non-empty table carrying the
\* table's position among all tables and set off by an empty line, then one
\* line per non-empty row.
FlattenedTables ==
    (<< << <<"q", None>> >> >> :> "\n[Table 1]\nq | ")
    @@ (<< <<>>, << <<"q", None>> >> >> :> "\n[Table 2]\nq | ")
    @@ (<< << <<>>, <<"r">> >>, << <<"s", "t">>, <<None>> >> >>
          :> "\n[Table 1]\nr\n\n[Table 2]\ns | t\n")

\* C18: once the text is formatted it is the prose text, a blank-line
\* separator and the flattened tables when some extracted table is
\* non-empty, and the prose text alone when there is no table or every
\* table is empty.
C18_TablesAppended ==
    pc \in {"excel", "returned"} =>
        LET prose == blocks_to_text(blocks) IN
        IF \E i \in DOMAIN tables : tables[i] # <<>>
        THEN /\ tables \in DOMAIN FlattenedTables
             /\ text = prose \o "\n\n" \o FlattenedTables[tables]
        ELSE text = prose

\* C18's case: an empty table, then a table with a row holding a null cell,
\* appended to a non-empty prose text.
C18_Witness ==
    /\ pc = "excel" /\ blocks # <<>>
    /\ Len(tables) = 2 /\ tables[1] = <<>> /\ tables[2] # <<>>

\* The positions of the non-whitespace tokens of an OCR output, in order.
RECURSIVE Kept(_, _)
Kept(toks, i) ==
    IF i > Len(toks) THEN <<>>
    ELSE (IF toks[i].text \notin {"", " "} THEN <<i>> ELSE <<>>) \o Kept(toks, i + 1)

\* The blocks ocr_to_blocks holds are well formed.
OcrBlocksWellFormed ==
    scanned = Bound(TRUE) =>
        /\ \A i \in DOMAIN blocks :
             /\ blocks[i].text \notin {"", " "}
             /\ blocks[i].page \in 0..(Len(doc) - 1)
             /\ At("image_to_data", blocks[i].page) # {}
        /\ \A i, j \in DOMAIN blocks : i < j => blocks[i].page <= blocks[j].page

\* A step of ocr_to_blocks adds to the blocks exactly one block per
\* non-whitespace token of the page just recognised, in token order, tagged
\* with that page, and no step removes or alters a block.
OcrBlocksStep ==
    (scanned = Bound(TRUE) /\ pc # "dispatch") =>
        /\ Len(blocks') >= Len(blocks)
        /\ SubSeq(blocks', 1, Len(blocks)) = blocks
        /\ IF pc = "ocr_append" /\ pc' = "ocr_release"
           THEN LET kept == Kept(data[1].toks, 1) IN
                /\ data[1].page = page_index
                /\ Len(blocks') = Len(blocks) + Len(kept)
                /\ \A k \in DOMAIN kept :
                     /\ blocks'[Len(blocks) + k].text = data[1].toks[kept[k]].text
                     /\ blocks'[Len(blocks) + k].x0 = data[1].toks[kept[k]].left
                     /\ blocks'[Len(blocks) + k].page = page_index
           ELSE blocks' = blocks

\* C19: every block ocr_to_blocks holds has a text that is not empty after
\* trimming and the zero-based index, within 0..N-1, of the page it was
\* recognised on; the blocks are in non-decreasing page order; each
\* non-whitespace token of a page yields exactly one block and a
\* whitespace-only token none.
C19_OcrBlocks == []OcrBlocksWellFormed /\ [][OcrBlocksStep]_vars

\* C19's case: the second page's only token is whitespace and gave no block,
\* the first page's token gave one.
C19_Witness ==
    /\ pc = "ocr_release" /\ page_index = 1
    /\ data[1].toks # <<>> /\ data[1].toks[1].text = " "
    /\ Len(blocks) = 1 /\ blocks[1].page = 0


----------------------------------------------------------------------------
(* JSON text and json.loads.                                               *)
(*                                                                         *)
(* A text is a sequence of tokens: the two code-fence markers, a space, a  *)
(* double quote, the literal null, and the serialization of the JSON       *)
(* object or list the response embeds (the payload).                       *)

FenceJson == "<fence>json"   \* three backticks and the word json
Fence     == "<fence>"       \* three backticks
Space     == " "
Quote     == "\""
Null      == "null"
Payload   == "<payload>"

Alphabet == {FenceJson, Fence, Space, Quote, Null, Payload}
Texts == SeqsUpTo(Alphabet, MaxText)

\* Python values json.loads can return: a dict, a list (of dicts), a str
\* (its characters as tokens) or None.
PyDict(items) == [kind |-> "dict", items |-> items, rows |-> <<>>, chars |-> <<>>]
PyList(rows)  == [kind |-> "list", items |-> <<>>, rows |-> rows, chars |-> <<>>]
PyStr(chars)  == [kind |-> "str", items |-> <<>>, rows |-> <<>>, chars |-> chars]
PyNone        == [kind |-> "none", items |-> <<>>, rows |-> <<>>, chars |-> <<>>]

\* The objects and lists a response can embed: the keys are requested
\* field names or a key nobody requested, a value is a string or null.
ObjectKeys == FieldNames \cup {"extra"}
Objects == UNION {[K -> {"v", None}] : K \in SUBSET ObjectKeys}
RowA == [k \in {"invoice_number"} |-> "v"]
RowB == [k \in {"extra"} |-> "v"]
Payloads == {PyDict(o) : o \in Objects}
            \cup {PyList(r) : r \in {<<>>, <<RowA>>, <<RowA, RowB>>,
                                     <<RowB, RowA>>, <<RowA, RowA>>}}

\* The serialization of a payload holds a double quote as soon as an
\* object of it has a key.
has_quote(p) ==
    IF p.kind = "dict" THEN DOMAIN p.items # {}
    ELSE \E i \in DOMAIN p.rows : DOMAIN p.rows[i] # {}

\* str.strip()
RECURSIVE lstrip(_)
lstrip(t) == IF t # <<>> /\ Head(t) = Space THEN lstrip(Tail(t)) ELSE t
RECURSIVE rstrip(_)
rstrip(t) ==
    IF t # <<>> /\ t[Len(t)] = Space THEN rstrip(SubSeq(t, 1, Len(t) - 1)) ELSE t
strip(t) == rstrip(lstrip(t))

\* str.replace(marker, "")
replace_all(t, marker) == SelectSeq(t, LAMBDA tok : tok # marker)

\* json.loads(t) for the payload p: [ok, value]. A JSON document is one
\* value with whitespace around it: the payload, null, or a string (two
\* quotes with no quote between them).
json_loads(t, p) ==
    LET c == strip(t)
        inner == SubSeq(c, 2, Len(c) - 1)
    IN  IF c = <<Payload>> THEN [ok |-> TRUE, value |-> p]
        ELSE IF c = <<Null>> THEN [ok |-> TRUE, value |-> PyNone]
        ELSE IF /\ Len(c) >= 2 /\ c[1] = Quote /\ c[Len(c)] = Quote
                /\ \A i \in DOMAIN inner :
                     /\ inner[i] # Quote
                     /\ inner[i] = Payload => ~has_quote(p)
             THEN [ok |-> TRUE, value |-> PyStr(inner)]
        ELSE [ok |-> FALSE, value |-> PyNone]

\* parse_json lines 57-61: the text without its fence markers.
cleaned(t) == strip(replace_all(replace_all(strip(t), FenceJson), Fence))


----------------------------------------------------------------------------
(* LLMProcessor.parse_json as a function of the text. *)

\* Lines 52-62: json.loads(text), and on JSONDecodeError json.loads of the
\* cleaned text; ok is false when that raises JSONDecodeError too.
parse_json(t, p) ==
    LET first == json_loads(t, p) IN
    IF first.ok THEN first ELSE json_loads(cleaned(t), p)

\* A text between a leading json fence and a trailing fence.
Fenced(t) == <<FenceJson>> \o t \o <<Fence>>

InitParse ==
    /\ jpc = "text"
    /\ jtext \in Texts
    /\ jpayload \in (IF \E i \in DOMAIN jtext : jtext[i] = Payload
                     THEN Payloads ELSE {PyNone})
    /\ jdirect = Unbound /\ jfenced = Unbound
    /\ pipeIdle /\ llmIdle /\ fmtIdle /\ hintIdle
    /\ formIdle /\ routerIdle /\ pairIdle /\ moreIdle

notParse == <<pipeVars, llmVars, fmtVars, hintVars, formVars, routerVars, pairVars,
              moreVars>>

\* parse_json(text)
parse_json_text ==
    /\ jpc = "text"
    /\ jdirect' = Bound(parse_json(jtext, jpayload))
    /\ jpc' = "fenced"
    /\ UNCHANGED <<jtext, jpayload, jfenced, notParse>>

\* parse_json of the same text as a model wraps it in a code fence
parse_json_fenced ==
    /\ jpc = "fenced"
    /\ jfenced' = Bound(parse_json(Fenced(jtext), jpayload))
    /\ jpc' = "done"
    /\ UNCHANGED <<jtext, jpayload, jdirect, notParse>>

NextParse == parse_json_text \/ parse_json_fenced

SpecParse == InitParse /\ [][NextParse]_vars

\* C17: for a text that is valid JSON, parse_json of the text is its JSON
\* value and parse_json of the text between a leading json fence and a
\* trailing fence is the same value; for a text that is valid JSON neither
\* as given nor cleaned of its fences, parse_json raises.
C17_ParseJsonRoundTrip ==
    jpc = "done" =>
        LET v == json_loads(jtext, jpayload) IN
        /\ v.ok => jdirect = Bound(v) /\ jfenced = Bound(v)
        /\ (~v.ok /\ ~json_loads(cleaned(jtext), jpayload).ok) => ~jdirect[1].ok


----------------------------------------------------------------------------
(* One run of LLMProcessor.extract. *)

InitLLM ==
    /\ lpc = "call_model"
    /\ lfields \in FieldLists
    /\ payload = PyNone
    /\ raw_response = Unbound
    /\ attempts = <<>>
    /\ parsed = Unbound
    /\ lresult = Unbound
    /\ lerror = Unbound
    /\ pipeIdle /\ fmtIdle /\ hintIdle /\ restIdle

notLLM == <<pipeVars, fmtVars, hintVars, restVars>>

lraise(what) == lpc' = "raised" /\ lerror' = Bound(what)

\* Lines 64-79, call_model lines 36-50: the model's response.text, a text
\* (with the payload it embeds, if it embeds one) or None.
call_model ==
    /\ lpc = "call_model"
    /\ \/ \E t \in Texts :
            /\ raw_response' = Bound(t)
            /\ payload' \in (IF \E i \in DOMAIN t : t[i] = Payload
                             THEN Payloads ELSE {PyNone})
       \/ raw_response' = Unbound /\ payload' = PyNone
    /\ lpc' = "parse"
    /\ UNCHANGED <<lfields, attempts, parsed, lresult, lerror, notLLM>>

\* generate_content raises (no API key, network, quota).
call_model_fails ==
    /\ lpc = "call_model"
    /\ lraise("APIError")
    /\ UNCHANGED <<lfields, payload, raw_response, attempts, parsed, lresult,
                   notLLM>>

\* parse_json lines 53-54: json.loads(text). None is no str: TypeError, which
\* the except clause does not catch.
parse_json_first ==
    /\ lpc = "parse"
    /\ attempts' = <<raw_response>>
    /\ IF raw_response = Unbound
       THEN lraise("TypeError") /\ UNCHANGED parsed
       ELSE LET r == json_loads(raw_response[1], payload) IN
            IF r.ok
            THEN parsed' = Bound(r.value) /\ lpc' = "reduce" /\ UNCHANGED lerror
            ELSE lpc' = "retry" /\ UNCHANGED <<parsed, lerror>>
    /\ UNCHANGED <<lfields, payload, raw_response, lresult, notLLM>>

\* A retry that falls back to an empty object when the cleaned text does
\* not parse either.
parse_json_retry_with_fallback ==
    /\ lpc = "retry"
    /\ LET c == cleaned(raw_response[1])
           r == json_loads(c, payload)
       IN  /\ attempts' = Append(attempts, Bound(c))
           /\ parsed' = Bound(IF r.ok THEN r.value ELSE PyDict(<<>>))
           /\ lpc' = "reduce"
    /\ UNCHANGED <<lfields, payload, raw_response, lresult, lerror, notLLM>>

\* parse_json lines 55-62: on JSONDecodeError, json.loads(cleaned); its
\* JSONDecodeError leaves parse_json and extract.
parse_json_retry ==
    /\ lpc = "retry"
    /\ LET c == cleaned(raw_response[1])
           r == json_loads(c, payload)
       IN  /\ attempts' = Append(attempts, Bound(c))
           /\ IF r.ok
              THEN parsed' = Bound(r.value) /\ lpc' = "reduce" /\ UNCHANGED lerror
              ELSE lraise("JSONDecodeError") /\ UNCHANGED parsed
    /\ UNCHANGED <<lfields, payload, raw_response, lresult, notLLM>>

\* A reduction that adds the missing fields but keeps the object's other
\* keys.
reduce_keeping_keys(items, fs) ==
    [k \in DOMAIN items \cup {fs[i] : i \in DOMAIN fs} |->
        IF k \in DOMAIN items THEN items[k] ELSE None]

\* Line 85: {field: parsed.get(field) for field in fields}
reduce_to_fields(items, fs) ==
    [f \in {fs[i] : i \in DOMAIN fs} |->
        IF f \in DOMAIN items THEN items[f] ELSE None]

\* A return that reduces every row of a list to the requested fields.
extract_value_reducing_rows(p, fs) ==
    IF p.kind = "list"
    THEN PyList([i \in DOMAIN p.rows |-> reduce_to_fields(p.rows[i], fs)])
    ELSE PyDict(reduce_to_fields(p.items, fs))

\* Lines 81-85: the list as it is, or the object reduced to the fields.
extract_value(p, fs) ==
    IF p.kind = "list" THEN p ELSE PyDict(reduce_to_fields(p.items, fs))

\* Lines 81-85. A str or None has no get: the comprehension raises
\* AttributeError at the first field (and builds {} when there is none).
extract_return ==
    /\ lpc = "reduce"
    /\ IF parsed[1].kind \in {"list", "dict"} \/ lfields = <<>>
       THEN /\ lresult' = Bound(extract_value(parsed[1], lfields))
            /\ lpc' = "returned"
            /\ UNCHANGED lerror
       ELSE lraise("AttributeError") /\ UNCHANGED lresult
    /\ UNCHANGED <<lfields, payload, raw_response, attempts, parsed, notLLM>>

NextLLM ==
    \/ call_model
    \/ call_model_fails
    \/ parse_json_first
    \/ parse_json_retry
    \/ extract_return

SpecLLM == InitLLM /\ [][NextLLM]_vars

Requested == {lfields[i] : i \in DOMAIN lfields}

\* C5: when the parsed response is an object, extract returns a map whose
\* keys are exactly the requested fields, each with the object's value
\* for it, null where the object has no such key.
C5_ObjectReducedToFields ==
    (lpc = "returned" /\ parsed[1].kind = "dict") =>
        /\ lresult[1].kind = "dict"
        /\ DOMAIN lresult[1].items = Requested
        /\ \A f \in Requested :
             lresult[1].items[f] =
                IF f \in DOMAIN parsed[1].items THEN parsed[1].items[f] ELSE None

\* C5's case: the object lacks a requested field, holds another requested
\* field with a value, and holds a key nobody requested.
C5_Witness ==
    /\ lpc = "returned" /\ parsed[1].kind = "dict"
    /\ \E f \in Requested : f \notin DOMAIN parsed[1].items
    /\ \E f \in Requested : f \in DOMAIN parsed[1].items /\ parsed[1].items[f] = "v"
    /\ \E k \in DOMAIN parsed[1].items : k \notin Requested

\* C6: when the parsed response is a list, extract returns that list: the
\* rows the response embeds, in their order, with their keys.
C6_ListUnchanged ==
    (lpc = "returned" /\ parsed[1].kind = "list") =>
        /\ lresult[1].kind = "list"
        /\ lresult[1].rows = payload.rows
        /\ lresult[1] = parsed[1]

\* C6's case: a list of two different rows, one with a key nobody
\* requested, the other without a requested field.
C6_Witness ==
    /\ lpc = "returned" /\ parsed[1].kind = "list"
    /\ Len(parsed[1].rows) = 2 /\ parsed[1].rows[1] # parsed[1].rows[2]
    /\ \E i \in 1..2 : \E k \in DOMAIN parsed[1].rows[i] : k \notin Requested
    /\ \E i \in 1..2 : \E f \in Requested : f \notin DOMAIN parsed[1].rows[i]

\* C7: parse_json hands at most two texts to json.loads: the raw text, and
\* only after the raw text failed to parse the cleaned text; when that
\* fails too the run ends in the parse error with no value, and when the
\* raw text parses nothing else is tried.
C7_AtMostOneRetry ==
    /\ Len(attempts) <= 2
    /\ attempts # <<>> => attempts[1] = raw_response
    /\ Len(attempts) = 2 =>
         /\ raw_response # Unbound
         /\ ~json_loads(raw_response[1], payload).ok
         /\ attempts[2] = Bound(cleaned(raw_response[1]))
         /\ ~json_loads(attempts[2][1], payload).ok =>
              /\ lpc = "raised" /\ lerror = Bound("JSONDecodeError")
              /\ parsed = Unbound /\ lresult = Unbound
    /\ (attempts # <<>> /\ raw_response # Unbound
        /\ json_loads(raw_response[1], payload).ok) =>
         /\ Len(attempts) = 1
         /\ parsed = Bound(json_loads(raw_response[1], payload).value)

\* C7's case: both attempts failed, on a text that had a fence to strip.
C7_Witness ==
    /\ lpc = "raised" /\ Len(attempts) = 2
    /\ attempts[2] # attempts[1]

\* C21: once parse_json has returned a value, extract does not fail, and
\* what it returns is a list or a map whose keys are exactly the requested
\* fields.
C21_ExtractTotalAfterParse ==
    parsed # Unbound =>
        /\ lpc # "raised"
        /\ lpc = "returned" =>
             \/ lresult[1].kind = "list"
             \/ lresult[1].kind = "dict" /\ DOMAIN lresult[1].items = Requested


----------------------------------------------------------------------------
(* DocumentFormatter.blocks_to_text applied to a list of blocks. *)

\* Blocks as dicts that may lack keys: a text that is absent, empty or not,
\* on two pages, two lines and two columns, or with no position at all.
Positions == {[page |-> 0, top |-> 0, x0 |-> 0], [page |-> 0, top |-> 0, x0 |-> 1],
              [page |-> 0, top |-> 1, x0 |-> 0], [page |-> 1, top |-> 0, x0 |-> 0],
              [top |-> 0, x0 |-> 1], [x0 |-> 0]}
with_text(pos, t) ==
    [k \in DOMAIN pos \cup {"text"} |-> IF k = "text" THEN t ELSE pos[k]]
FmtBlocks ==
    {with_text(pos, t) : pos \in Positions, t \in {"a", "b"}}
    \cup {with_text([page |-> 0, top |-> 0, x0 |-> 1], ""),
          [page |-> 0, top |-> 1, x0 |-> 0]}

InitFmt ==
    /\ fpc = "call"
    /\ fblocks \in SeqsUpTo(FmtBlocks, MaxBlocks)
    /\ ftext = ""
    /\ pipeIdle /\ llmIdle /\ hintIdle /\ restIdle

blocks_to_text_call ==
    /\ fpc = "call"
    /\ ftext' = blocks_to_text(fblocks)
    /\ fpc' = "returned"
    /\ UNCHANGED <<fblocks, pipeVars, llmVars, hintVars, restVars>>

NextFmt == blocks_to_text_call

SpecFmt == InitFmt /\ [][NextFmt]_vars

\* The claim's reading of a block: a missing key reads as 0, a missing text
\* as the empty text.
Read(b, k) == IF k \in DOMAIN b THEN b[k] ELSE 0
TextOf(b) == IF "text" \in DOMAIN b THEN b.text ELSE ""

\* Block i comes before block j in ascending (page, top, x0) order, ties in
\* input order.
Before(i, j) ==
    LET bi == fblocks[i]
        bj == fblocks[j]
    IN  \/ Read(bi, "page") < Read(bj, "page")
        \/ /\ Read(bi, "page") = Read(bj, "page")
           /\ \/ Read(bi, "top") < Read(bj, "top")
              \/ /\ Read(bi, "top") = Read(bj, "top")
                 /\ \/ Read(bi, "x0") < Read(bj, "x0")
                    \/ Read(bi, "x0") = Read(bj, "x0") /\ i < j

\* The input position of the block that stands r-th in that order.
Ranked(r) ==
    CHOOSE i \in DOMAIN fblocks :
        Cardinality({j \in DOMAIN fblocks : Before(j, i)}) = r - 1

\* The texts, each followed by one space except the last.
RECURSIVE SpaceSeparated(_)
SpaceSeparated(ts) ==
    IF ts = <<>> THEN ""
    ELSE SpaceSeparated(SubSeq(ts, 1, Len(ts) - 1))
         \o (IF Len(ts) > 1 THEN " " ELSE "") \o ts[Len(ts)]

\* C8: blocks_to_text(B) is the non-empty texts of B, in ascending
\* (page, top, x0) order with ties in input order and missing keys read as
\* 0, separated by one space; an empty or missing text adds nothing.
C8_ReadingOrderText ==
    fpc = "returned" =>
        ftext = SpaceSeparated(
                    SelectSeq([r \in DOMAIN fblocks |-> TextOf(fblocks[Ranked(r)])],
                              LAMBDA t : t # ""))

\* C8's case: three blocks, two of them out of order in the input, two of
\* them tied with one lacking its page, and one without text.
C8_Witness ==
    /\ fpc = "returned" /\ Len(fblocks) = 3
    /\ \E i, j \in DOMAIN fblocks :
         i < j /\ Before(j, i) /\ TextOf(fblocks[i]) # "" /\ TextOf(fblocks[j]) # ""
    /\ \E i \in DOMAIN fblocks : TextOf(fblocks[i]) = ""
    /\ ftext \in {"a b", "b a"}


----------------------------------------------------------------------------
(* DocumentFormatter.build_llm_hints applied to match lists. *)

RegexKeys  == {"emails", "phones", "amounts", "dates_numeric"}
EntityKeys == {"organizations", "dates", "money", "persons", "locations"}

\* The n matches of one pattern or label, in first-occurrence order; the
\* matches of regex_extract and of extract_entities are told apart.
Matches(side, key, n) == [i \in 1..n |-> side \o "." \o key \o "#" \o ToString(i)]

\* list[:cap]
Prefix(s, cap) == SubSeq(s, 1, IF Len(s) < cap THEN Len(s) ELSE cap)

\* A build_llm_hints with one limit for every category.
build_llm_hints_one_limit(rd, en) ==
    [emails            |-> Prefix(rd["emails"], 10),
     phones            |-> Prefix(rd["phones"], 10),
     amount_candidates |-> Prefix(rd["amounts"], 10),
     numeric_dates     |-> Prefix(rd["dates_numeric"], 10),
     organizations     |-> Prefix(en["organizations"], 10),
     dates             |-> Prefix(en["dates"], 10),
     money_entities    |-> Prefix(en["money"], 10),
     persons           |-> Prefix(en["persons"], 10),
     locations         |-> Prefix(en["locations"], 10)]

\* Lines 92-102
build_llm_hints(rd, en) ==
    [emails            |-> Prefix(rd["emails"], 5),
     phones            |-> Prefix(rd["phones"], 5),
     amount_candidates |-> Prefix(rd["amounts"], 10),
     numeric_dates     |-> Prefix(rd["dates_numeric"], 10),
     organizations     |-> Prefix(en["organizations"], 10),
     dates             |-> Prefix(en["dates"], 10),
     money_entities    |-> Prefix(en["money"], 10),
     persons           |-> Prefix(en["persons"], 10),
     locations         |-> Prefix(en["locations"], 10)]

\* The inputs: one list of any length up to MaxMatches, the other eight of
\* one common length up to MaxMatches.
InitHints ==
    /\ hpc = "call"
    /\ \E side \in {"regex", "entity"}, n, m \in 0..MaxMatches :
         \E key \in (IF side = "regex" THEN RegexKeys ELSE EntityKeys) :
            /\ regex_data =
                 [k \in RegexKeys |->
                    Matches("regex", k, IF side = "regex" /\ k = key THEN n ELSE m)]
            /\ entities =
                 [k \in EntityKeys |->
                    Matches("entity", k, IF side = "entity" /\ k = key THEN n ELSE m)]
    /\ hints = <<>>
    /\ pipeIdle /\ llmIdle /\ fmtIdle /\ restIdle

build_llm_hints_call ==
    /\ hpc = "call"
    /\ hints' = build_llm_hints(regex_data, entities)
    /\ hpc' = "returned"
    /\ UNCHANGED <<regex_data, entities, pipeVars, llmVars, fmtVars, restVars>>

NextHints == build_llm_hints_call

SpecHints == InitHints /\ [][NextHints]_vars

\* The claim's table: each hint category with the list it is cut from and
\* its cap.
HintTable ==
    [emails            |-> [source |-> regex_data["emails"], cap |-> 5],
     phones            |-> [source |-> regex_data["phones"], cap |-> 5],
     amount_candidates |-> [source |-> regex_data["amounts"], cap |-> 10],
     numeric_dates     |-> [source |-> regex_data["dates_numeric"], cap |-> 10],
     organizations     |-> [source |-> entities["organizations"], cap |-> 10],
     dates             |-> [source |-> entities["dates"], cap |-> 10],
     money_entities    |-> [source |-> entities["money"], cap |-> 10],
     persons           |-> [source |-> entities["persons"], cap |-> 10],
     locations         |-> [source |-> entities["locations"], cap |-> 10]]

\* C9: build_llm_hints returns the nine categories, each the first
\* min(cap, length) elements of its source list in the source's order,
\* with cap 5 for emails and phones and 10 for the seven others.
C9_HintsArePrefixes ==
    hpc = "returned" =>
        /\ DOMAIN hints = DOMAIN HintTable
        /\ Cardinality(DOMAIN hints) = 9
        /\ \A c \in DOMAIN HintTable :
             LET src == HintTable[c].source
                 cap == HintTable[c].cap
             IN  /\ Len(hints[c]) = (IF Len(src) <= cap THEN Len(src) ELSE cap)
                 /\ \A i \in 1..Len(hints[c]) : hints[c][i] = src[i]

\* C9's case: more than ten matches in every list but emails, which has
\* more than five and fewer than ten.
C9_Witness ==
    /\ hpc = "returned"
    /\ Len(regex_data["emails"]) \in 6..9 /\ Len(hints["emails"]) = 5
    /\ Len(entities["persons"]) > 10 /\ Len(hints["persons"]) = 10
    /\ Len(regex_data["phones"]) > 10 /\ Len(hints["phones"]) = 5

----------------------------------------------------------------------------
(* The field list of a request: the router's parsing of the `fields` form  *)
(* value (extract_router.py lines 51-52) and extract_data's default        *)
(* (orchestrator.py line 23).                                              *)
(*                                                                         *)
(* A form value is a sequence of tokens: a comma, a space, or a word (a    *)
(* run of characters that are neither).                                    *)

Comma == ","
FormAlphabet == {Comma, Space, "invoice_number", "excel_path"}
\* Form("invoice_number,invoice_date,total_amount"), the value when the
\* caller sends none
DefaultForm == <<"invoice_number", Comma, "invoice_date", Comma, "total_amount">>
Forms == SeqsUpTo(FormAlphabet, MaxForm) \cup {DefaultForm}

\* fields.split(",")
RECURSIVE split(_)
split(t) ==
    IF \A i \in DOMAIN t : t[i] # Comma THEN <<t>>
    ELSE LET i == CHOOSE k \in DOMAIN t :
                    t[k] = Comma /\ \A j \in 1..(k - 1) : t[j] # Comma
         IN  <<SubSeq(t, 1, i - 1)>> \o split(SubSeq(t, i + 1, Len(t)))

\* A list that keeps the entries as they were sent, untrimmed.
field_entries_untrimmed(t) ==
    LET kept == SelectSeq(split(t), LAMBDA f : strip(f) # <<>>)
    IN  [i \in DOMAIN kept |-> join("", kept[i])]

\* Line 51: [f.strip() for f in fields.split(",") if f.strip()]
field_entries(t) ==
    LET kept == SelectSeq(split(t), LAMBDA f : strip(f) # <<>>)
    IN  [i \in DOMAIN kept |-> join("", strip(kept[i]))]

\* Line 52: field_list or ["invoice_number", "invoice_date", "total_amount"]
field_list_of(t) ==
    IF field_entries(t) = <<>> THEN DefaultFields ELSE field_entries(t)

InitFields ==
    /\ \/ gpc = "router" /\ gform \in {Bound(f) : f \in Forms} /\ garg = Unbound
       \/ gpc = "extract_data" /\ gform = Unbound /\ garg \in FieldArgs
    /\ gfields = <<>>
    /\ pipeIdle /\ llmIdle /\ fmtIdle /\ hintIdle
    /\ parseIdle /\ routerIdle /\ pairIdle /\ moreIdle

notForm == <<pipeVars, llmVars, fmtVars, hintVars, parseVars, routerVars, pairVars,
             moreVars>>

\* extract_router.py lines 51-52 and 71-74: the list POST /extract hands to
\* extract_data.
router_field_list ==
    /\ gpc = "router"
    /\ garg' = Bound(field_list_of(gform[1]))
    /\ gpc' = "extract_data"
    /\ UNCHANGED <<gform, gfields, notForm>>

\* orchestrator.py line 23
extract_data_fields ==
    /\ gpc = "extract_data"
    /\ gfields' = default_fields(garg)
    /\ gpc' = "done"
    /\ UNCHANGED <<gform, garg, notForm>>

NextFields == router_field_list \/ extract_data_fields

SpecFields == InitFields /\ [][NextFields]_vars

\* The entries of a form value, told by position: the k-th entry lies
\* between the (k-1)-th and the k-th comma.
Commas(t) == {i \in DOMAIN t : t[i] = Comma}
NthComma(t, k) ==
    IF k = 0 THEN 0
    ELSE IF k > Cardinality(Commas(t)) THEN Len(t) + 1
    ELSE CHOOSE i \in Commas(t) : Cardinality({j \in Commas(t) : j < i}) = k - 1
Entry(t, k) == SubSeq(t, NthComma(t, k - 1) + 1, NthComma(t, k) - 1)
Usable(e) == \E i \in DOMAIN e : e[i] # Space
Trimmed(e) ==
    LET ink == {i \in DOMAIN e : e[i] # Space}
        lo == CHOOSE i \in ink : \A j \in ink : i <= j
        hi == CHOOSE i \in ink : \A j \in ink : i >= j
    IN  SubSeq(e, lo, hi)
UsableEntries(t) == {k \in 1..(Cardinality(Commas(t)) + 1) : Usable(Entry(t, k))}
\* The list l holds the usable entries of t, trimmed, in the caller's order.
IsCallersList(l, t) ==
    /\ Len(l) = Cardinality(UsableEntries(t))
    /\ \A k \in UsableEntries(t) :
         LET n == Cardinality({j \in UsableEntries(t) : j <= k})
             e == Trimmed(Entry(t, k))
         IN  l[n] = join("", e)

\* C14: POST /extract hands extract_data the default field list when no
\* entry of the comma-separated form value is non-empty after trimming, and
\* otherwise the caller's entries trimmed, the empty ones dropped, in the
\* caller's order with duplicates kept; extract_data uses the default list
\* when its fields argument is None or empty and the argument otherwise.
C14_DefaultFieldList ==
    /\ (gform # Unbound /\ gpc # "router") =>
         IF UsableEntries(gform[1]) = {}
         THEN garg = Bound(DefaultFields)
         ELSE IsCallersList(garg[1], gform[1])
    /\ gpc = "done" =>
         IF garg = Unbound \/ Len(garg[1]) = 0
         THEN gfields = DefaultFields
         ELSE gfields = garg[1]

\* C14's case: an entry with a space before it, an empty entry, and the
\* first entry again.
C14_Witness ==
    /\ gpc = "done" /\ gform # Unbound
    /\ Len(gform[1]) = 4 /\ gform[1][1] = Space /\ gform[1][3] = Comma
    /\ gfields = <<"excel_path", "excel_path">>


----------------------------------------------------------------------------
(* POST /extract: extract_router.extract, one request.                     *)

\* file.filename: nothing, or a stem and a suffix
Filenames == {<<>>, <<"invoice", ".txt">>, <<"invoice", ".PDF">>}
\* str.lower() of a file name
lower(name) == [i \in DOMAIN name |-> IF name[i] = ".PDF" THEN ".pdf" ELSE name[i]]
\* Line 37: file.filename and file.filename.lower().endswith(".pdf")
is_pdf(name) == name # <<>> /\ lower(name)[Len(name)] = ".pdf"
\* Line 41: Path(file.filename).suffix or ".pdf"
suffix_of(name) ==
    IF Len(name) >= 2 /\ name[Len(name)] \in {".txt", ".PDF", ".pdf"}
    THEN name[Len(name)] ELSE ".pdf"
\* Line 42: the name NamedTemporaryFile gives the file
tmp_name(name) == "/tmp/tmp0" \o suffix_of(name)

\* The `fields` form values of the requests: none usable, and two entries.
RouterForms == {<<>>, <<"invoice_number", Comma, Space, "excel_path">>}

\* _user: None (auth disabled), or the token's claims; email "" is a token
\* with no email claim.
Users == {[auth |-> FALSE, email |-> ""],
          [auth |-> TRUE, email |-> ""],
          [auth |-> TRUE, email |-> "user@example.com"]}

\* HTTPException(status, detail)
HTTPException(status, detail) == [status |-> status, detail |-> detail]
\* A handler that reports the failure without its cause.
extraction_failed_without_cause(e) == HTTPException(500, "Extraction failed")
\* Line 116: HTTPException(500, f"Extraction failed: {str(e)}")
extraction_failed(e) == HTTPException(500, "Extraction failed: " \o e)

\* PDFProcessor.is_scanned lines 20-22, as the value it returns
is_scanned_value(d) == ~\E i \in DOMAIN d : page_has_text(d[i])

InitRouter ==
    /\ rpc = "start"
    /\ filename \in Filenames
    /\ form \in RouterForms
    /\ user \in {Bound(u) : u \in Users}
    /\ tmp_path = Unbound /\ tmp_files = {}
    /\ field_list = Unbound /\ is_scanned = Unbound
    /\ raw_row = Unbound
    /\ db = <<>> /\ queued = <<>>
    /\ cause = Unbound /\ responses = <<>>
    \* the uploaded document; extract_data has not been called
    /\ doc \in Docs
    /\ fields_arg = Unbound /\ pc = "idle" /\ fields = <<>>
    /\ scan_i = 1 /\ scanned = Unbound /\ total_pages = 0
    /\ page_index = 0 /\ images = Unbound /\ image = Unbound
    /\ data = Unbound /\ blocks = <<>> /\ tables = <<>> /\ text = ""
    /\ result = Unbound /\ files = {} /\ error = Unbound /\ trace = <<>>
    /\ llmIdle /\ fmtIdle /\ hintIdle
    /\ parseIdle /\ formIdle /\ pairIdle /\ moreIdle

notRouter == <<llmVars, fmtVars, hintVars, parseVars, formVars, pairVars, moreVars>>
runVars == <<doc, fields_arg, pc, fields, scan_i, scanned, total_pages,
             page_index, images, image, data, blocks, tables, text, result,
             files, error>>

\* Lines 37-38
reject_not_pdf ==
    /\ rpc = "start" /\ ~is_pdf(filename)
    /\ responses' = Append(responses, HTTPException(400, "File must be a PDF"))
    /\ rpc' = "done"
    /\ UNCHANGED <<filename, form, user, tmp_path, tmp_files, field_list,
                   is_scanned, raw_row, db, queued, cause, runVars, trace,
                   notRouter>>

\* Lines 41-42: NamedTemporaryFile(delete=False, suffix=suffix) creates the
\* file.
create_tmp ==
    /\ rpc = "start" /\ is_pdf(filename)
    /\ tmp_files' = tmp_files \cup {tmp_name(filename)}
    /\ trace' = Append(trace, Call("NamedTemporaryFile"))
    /\ rpc' = "write"
    /\ UNCHANGED <<filename, form, user, tmp_path, field_list, is_scanned,
                   raw_row, db, queued, cause, responses, runVars, notRouter>>

\* Line 42: NamedTemporaryFile raises (no space, no temp directory); no file
\* was created.
create_tmp_fails ==
    /\ rpc = "start" /\ is_pdf(filename)
    /\ cause' = Bound("FileNotFoundError")
    /\ rpc' = "except"
    /\ UNCHANGED <<filename, form, user, tmp_path, tmp_files, field_list,
                   is_scanned, raw_row, db, queued, responses, runVars, trace,
                   notRouter>>

\* Lines 44-46: the upload is read and written; leaving the with block
\* closes the file and, with delete=False, keeps it.
write_upload ==
    /\ rpc = "write"
    /\ tmp_path' = Bound(tmp_name(filename))
    /\ rpc' = "construct"
    /\ UNCHANGED <<filename, form, user, tmp_files, field_list, is_scanned,
                   raw_row, db, queued, cause, responses, runVars, trace,
                   notRouter>>

\* Lines 44-45: file.file.read() or tmp.write(content) raises. tmp_path is
\* not assigned and the try of line 49 not entered: the exception goes to
\* the handler of line 114.
write_upload_fails ==
    /\ rpc = "write"
    /\ cause' = Bound("OSError")
    /\ rpc' = "except"
    /\ UNCHANGED <<filename, form, user, tmp_path, tmp_files, field_list,
                   is_scanned, raw_row, db, queued, responses, runVars, trace,
                   notRouter>>

\* Lines 50-52: the orchestrator of this document, and the field list.
construct_orchestrator ==
    /\ rpc = "construct"
    /\ field_list' = Bound(field_list_of(form))
    /\ rpc' = "classify"
    /\ UNCHANGED <<filename, form, user, tmp_path, tmp_files, is_scanned,
                   raw_row, db, queued, cause, responses, runVars, trace,
                   notRouter>>

\* Line 50: ExtractionOrchestrator(tmp_path) raises (DocumentFormatter's
\* spacy.load without the model installed).
construct_orchestrator_fails ==
    /\ rpc = "construct"
    /\ cause' = Bound("OSError")
    /\ rpc' = "finally"
    /\ UNCHANGED <<filename, form, user, tmp_path, tmp_files, field_list,
                   is_scanned, raw_row, db, queued, responses, runVars, trace,
                   notRouter>>

\* Lines 54-55: the handler classifies the document, for its log.
router_is_scanned ==
    /\ rpc = "classify"
    /\ is_scanned' = Bound(is_scanned_value(doc))
    /\ trace' = Append(trace, Call("is_scanned"))
    /\ rpc' = "insert_raw"
    /\ UNCHANGED <<filename, form, user, tmp_path, tmp_files, field_list,
                   raw_row, db, queued, cause, responses, runVars, notRouter>>

\* Line 54: is_scanned raises on a file pypdf cannot read.
router_is_scanned_fails ==
    /\ rpc = "classify"
    /\ cause' = Bound("PdfReadError")
    /\ trace' = Append(trace, Call("is_scanned"))
    /\ rpc' = "finally"
    /\ UNCHANGED <<filename, form, user, tmp_path, tmp_files, field_list,
                   is_scanned, raw_row, db, queued, responses, runVars,
                   notRouter>>

\* Lines 57-66, insert_raw lines 36-49: the row is stored.
insert_raw_stored ==
    /\ rpc = "insert_raw"
    /\ db' = Append(db, [table |-> "extraction_raw", id |-> "raw-1",
                         fields |-> field_list[1]])
    /\ raw_row' = Bound([id |-> "raw-1"])
    /\ trace' = Append(trace, Call("insert_raw"))
    /\ rpc' = "extract"
    /\ UNCHANGED <<filename, form, user, tmp_path, tmp_files, field_list,
                   is_scanned, queued, cause, responses, runVars, notRouter>>

\* insert_raw lines 34-35, 38-39, 50-52: no database configured, or the
\* repository caught the database's exception; it returns None.
insert_raw_returns_none ==
    /\ rpc = "insert_raw"
    /\ raw_row' = Bound(<<>>)
    /\ trace' = Append(trace, Call("insert_raw returned None"))
    /\ rpc' = "extract"
    /\ UNCHANGED <<filename, form, user, tmp_path, tmp_files, field_list,
                   is_scanned, db, queued, cause, responses, runVars,
                   notRouter>>

\* A handler that lets the repository's exception through.
insert_raw_raises_uncaught ==
    /\ rpc = "insert_raw"
    /\ cause' = Bound("SQLAlchemyError")
    /\ trace' = Append(trace, Call("insert_raw raised"))
    /\ rpc' = "finally"
    /\ UNCHANGED <<filename, form, user, tmp_path, tmp_files, field_list,
                   is_scanned, raw_row, db, queued, responses, runVars,
                   notRouter>>

\* Lines 58-68: the repository raises; the handler catches it and goes on
\* with raw_row = None.
insert_raw_raises ==
    /\ rpc = "insert_raw"
    /\ raw_row' = Bound(<<>>)
    /\ trace' = Append(trace, Call("insert_raw raised"))
    /\ rpc' = "extract"
    /\ UNCHANGED <<filename, form, user, tmp_path, tmp_files, field_list,
                   is_scanned, db, queued, cause, responses, runVars,
                   notRouter>>

\* Lines 71-74: orchestrator.extract_data(document_type, fields=field_list)
call_extract_data ==
    /\ rpc = "extract"
    /\ fields_arg' = Bound(field_list[1])
    /\ pc' = "start"
    /\ rpc' = "extracting"
    /\ UNCHANGED <<filename, form, user, tmp_path, tmp_files, field_list,
                   is_scanned, raw_row, db, queued, cause, responses, doc,
                   fields, scan_i, scanned, total_pages, page_index, ocrLocals,
                   blocks, tables, text, result, files, error, trace,
                   notRouter>>

\* Lines 71-75: extract_data returned.
extract_data_returned ==
    /\ rpc = "extracting" /\ pc = "returned"
    /\ rpc' = "insert_processed"
    /\ UNCHANGED <<filename, form, user, tmp_path, tmp_files, field_list,
                   is_scanned, raw_row, db, queued, cause, responses, runVars,
                   trace, notRouter>>

\* Lines 71-74: extract_data raised; nothing between it and the finally of
\* line 112 catches the exception.
extract_data_raised ==
    /\ rpc = "extracting" /\ pc = "raised"
    /\ cause' = Bound(error[1].what)
    /\ rpc' = "finally"
    /\ UNCHANGED <<filename, form, user, tmp_path, tmp_files, field_list,
                   is_scanned, raw_row, db, queued, responses, runVars, trace,
                   notRouter>>

\* Line 79: raw_row.get("id") if raw_row else None
raw_id_of(row) == IF row = <<>> THEN None ELSE row.id

\* Lines 77-87, insert_processed lines 66-81: the row is stored.
insert_processed_stored ==
    /\ rpc = "insert_processed"
    /\ db' = Append(db, [table |-> "extraction_processed",
                         raw_id |-> raw_id_of(raw_row[1]),
                         response |-> result[1]])
    /\ trace' = Append(trace, Call("insert_processed"))
    /\ rpc' = "email"
    /\ UNCHANGED <<filename, form, user, tmp_path, tmp_files, field_list,
                   is_scanned, raw_row, queued, cause, responses, runVars,
                   notRouter>>

\* insert_processed lines 64-65, 68-69, 82-84: it returns None.
insert_processed_returns_none ==
    /\ rpc = "insert_processed"
    /\ trace' = Append(trace, Call("insert_processed returned None"))
    /\ rpc' = "email"
    /\ UNCHANGED <<filename, form, user, tmp_path, tmp_files, field_list,
                   is_scanned, raw_row, db, queued, cause, responses, runVars,
                   notRouter>>

\* Lines 77-89: the repository raises; the handler catches it.
insert_processed_raises ==
    /\ rpc = "insert_processed"
    /\ trace' = Append(trace, Call("insert_processed raised"))
    /\ rpc' = "email"
    /\ UNCHANGED <<filename, form, user, tmp_path, tmp_files, field_list,
                   is_scanned, raw_row, db, queued, cause, responses, runVars,
                   notRouter>>

\* Lines 92-106: the note, given whether a task is queued
email_note_of(u, r) ==
    IF u.auth /\ u.email # ""
    THEN (IF r["excel_path"] # "" THEN "queued" ELSE "no_excel_path")
    ELSE "user_not_authenticated"

\* Lines 107-108: result["email_sent"] = False; result["email_note"] = note
with_email(r, note) ==
    [k \in DOMAIN r \cup {"email_sent", "email_note"} |->
        IF k = "email_sent" THEN FALSE
        ELSE IF k = "email_note" THEN note
        ELSE r[k]]

\* Lines 91-113: the email task is queued for a user with an address, the
\* result is returned, and on the way out the finally deletes the temporary
\* file.
queue_email_and_return ==
    /\ rpc = "email"
    /\ LET note == email_note_of(user[1], result[1]) IN
        /\ queued' = IF note = "queued"
                     THEN Append(queued, [to_email |-> user[1].email,
                                          excel_path |-> result[1]["excel_path"]])
                     ELSE queued
        /\ responses' = Append(responses,
                               [status |-> 200, body |-> with_email(result[1], note)])
    /\ tmp_files' = tmp_files \ {tmp_path[1]}
    /\ trace' = Append(trace, Call("unlink"))
    /\ rpc' = "done"
    /\ UNCHANGED <<filename, form, user, tmp_path, field_list, is_scanned,
                   raw_row, db, cause, runVars, notRouter>>

\* Lines 112-116: an exception leaves the try of line 49; the finally
\* deletes the temporary file and the handler of line 114 raises the 500.
unlink_and_raise ==
    /\ rpc = "finally"
    /\ tmp_files' = tmp_files \ {tmp_path[1]}
    /\ trace' = Append(trace, Call("unlink"))
    /\ responses' = Append(responses, extraction_failed(cause[1]))
    /\ rpc' = "done"
    /\ UNCHANGED <<filename, form, user, tmp_path, field_list, is_scanned,
                   raw_row, db, queued, cause, runVars, notRouter>>

\* Lines 114-116: an exception raised before the try of line 49 was entered.
raise_extraction_failed ==
    /\ rpc = "except"
    /\ responses' = Append(responses, extraction_failed(cause[1]))
    /\ rpc' = "done"
    /\ UNCHANGED <<filename, form, user, tmp_path, tmp_files, field_list,
                   is_scanned, raw_row, db, queued, cause, runVars, trace,
                   notRouter>>

NextRouter ==
    \/ reject_not_pdf
    \/ create_tmp
    \/ create_tmp_fails
    \/ write_upload
    \/ write_upload_fails
    \/ construct_orchestrator
    \/ construct_orchestrator_fails
    \/ router_is_scanned
    \/ router_is_scanned_fails
    \/ insert_raw_stored
    \/ insert_raw_returns_none
    \/ insert_raw_raises
    \/ call_extract_data
    \/ Next
    \/ extract_data_returned
    \/ extract_data_raised
    \/ insert_processed_stored
    \/ insert_processed_returns_none
    \/ insert_processed_raises
    \/ queue_email_and_return
    \/ unlink_and_raise
    \/ raise_extraction_failed

SpecRouter == InitRouter /\ [][NextRouter]_vars

----------------------------------------------------------------------------
(* Properties of a POST /extract request. *)

\* The rows stored in a table.
Rows(table) == {i \in DOMAIN db : db[i].table = table}

\* The request is over: the handler returned or raised.
Answered == rpc = "done"

\* C12: when a stage of extract_data (or the handler's own classification)
\* raises, the stage is not called again and nothing runs after it: no
\* artifact is written, no processed row stored, no email queued, no result
\* returned; and the caller gets exactly one signal, the HTTP 500 whose
\* detail is "Extraction failed: " and the cause's message.
C12_StageFailureSurfaces ==
    /\ Len(responses) <= 1
    /\ Answered <=> Len(responses) = 1
    /\ (pc = "raised" \/ cause \in {Bound("PdfReadError")}) =>
         /\ result = Unbound
         /\ files = {}
         /\ Rows("extraction_processed") = {}
         /\ queued = <<>>
         /\ Ops({"insert_processed", "insert_processed returned None",
                 "insert_processed raised"}) = {}
         /\ \A op \in {"ocr_to_blocks", "extract_layout", "extract_tables",
                       "format_document", "create_excel"} :
              Cardinality(Ops({op})) <= 1
         /\ pc = "raised" =>
              /\ Cardinality(Ops({"is_scanned"})) = 2
              /\ rpc \in {"extracting", "finally", "done"}
              /\ rpc # "extracting" => cause = Bound(error[1].what)
         /\ Answered =>
              /\ responses[1].status = 500
              /\ responses[1].detail = "Extraction failed: " \o cause[1]
              /\ DOMAIN responses[1] = {"status", "detail"}

\* C12's case: OCR failed on a page, after the raw row was stored; the
\* caller got the 500.
C12_Witness ==
    /\ Answered /\ pc = "raised" /\ error[1].what = "TesseractError"
    /\ Rows("extraction_raw") # {}

\* The calls of the repository that failed: raised, or returned None.
PersistenceFailures ==
    Ops({"insert_raw raised", "insert_raw returned None",
         "insert_processed raised", "insert_processed returned None"})

\* C13: a failure of insert_raw or insert_processed, raised or a None
\* return, does not end the request: extract_data is still called, the
\* cause of a 500 is never the repository, and when extract_data returned
\* the response is its result with the two email keys, whatever the
\* repository did.
C13_PersistenceIsOptional ==
    /\ cause # Bound("SQLAlchemyError")
    /\ (Ops({"insert_raw raised", "insert_raw returned None"}) # {}
        /\ rpc \notin {"insert_raw", "extract"}) => pc # "idle"
    /\ (Answered /\ PersistenceFailures # {}) =>
         /\ pc \in {"returned", "raised"}
         /\ responses[1].status = 500 => pc = "raised"
    /\ (Answered /\ pc = "returned") =>
         /\ responses[1].status = 200
         /\ LET b == responses[1].body IN
             /\ DOMAIN b = DOMAIN result[1] \cup {"email_sent", "email_note"}
             /\ \A k \in DOMAIN result[1] : b[k] = result[1][k]
             /\ b["email_sent"] = FALSE
             /\ b["email_note"] = IF user[1].auth /\ user[1].email # ""
                                  THEN "queued" ELSE "user_not_authenticated"

\* C13's case: insert_raw raised and insert_processed returned None, and
\* the caller got the result.
C13_Witness ==
    /\ Answered /\ responses[1].status = 200
    /\ Ops({"insert_raw raised"}) # {}
    /\ Ops({"insert_processed returned None"}) # {}
    /\ db = <<>>

\* C15: in a request that went through extraction the document is
\* classified exactly once, and the extractor called is the one that
\* classification selects.
C15_ClassifiedOnce ==
    (Answered /\ pc = "returned") =>
        /\ Cardinality(Ops({"is_scanned"})) = 1
        /\ scanned[1] => Ops({"ocr_to_blocks"}) # {} /\ Ops({"extract_layout"}) = {}
        /\ ~scanned[1] => Ops({"extract_layout"}) # {} /\ Ops({"ocr_to_blocks"}) = {}

\* C20: once the request is over, the temporary file it created no longer
\* exists.
C20_TempFileDeleted ==
    (Answered /\ Ops({"NamedTemporaryFile"}) # {}) => tmp_files = {}

----------------------------------------------------------------------------
(* Two runs of extract_data at once, each on its own ExtractionOrchestrator *)
(* (its own PDFProcessor, DocumentFormatter and ExcelGenerator), one step   *)
(* per stage. The runs share nothing but the directory generated_excel/.    *)

RunIds == {1, 2}
PairDocs == {<<"">>, <<"a">>}
PairArgs == {Unbound, Bound(<<"invoice_number">>)}

\* ocr_to_blocks over all pages, given each page's OCR output
RECURSIVE ocr_blocks_of(_, _)
ocr_blocks_of(outs, p) ==
    IF p >= Len(outs) THEN <<>>
    ELSE page_blocks(outs[p + 1], p) \o ocr_blocks_of(outs, p + 1)

\* extract_layout over all pages, given each page's words
RECURSIVE layout_blocks_of(_, _)
layout_blocks_of(outs, p) ==
    IF p >= Len(outs) THEN <<>>
    ELSE [i \in 1..Len(outs[p + 1]) |->
            [text |-> outs[p + 1][i].text, x0 |-> outs[p + 1][i].x0,
             top |-> outs[p + 1][i].top, x1 |-> outs[p + 1][i].x1,
             bottom |-> outs[p + 1][i].bottom, page |-> p]]
         \o layout_blocks_of(outs, p + 1)

InitPair ==
    /\ runs \in [RunIds -> [doc : PairDocs, arg : PairArgs, pc : {"start"},
                            fields : {<<>>}, scanned : {Unbound},
                            blocks : {<<>>}, tables : {<<>>}, text : {""},
                            result : {Unbound}]]
    /\ dir = <<>>
    /\ pipeIdle /\ llmIdle /\ fmtIdle /\ hintIdle
    /\ parseIdle /\ formIdle /\ routerIdle /\ moreIdle

notPair == <<pipeVars, llmVars, fmtVars, hintVars, parseVars, formVars, routerVars,
             moreVars>>

\* orchestrator.py line 23 and pdf_processor.py line 90: the default, and
\* the classification.
run_is_scanned(i) ==
    /\ runs[i].pc = "start"
    /\ runs' = [runs EXCEPT ![i].fields = default_fields(runs[i].arg),
                            ![i].scanned = Bound(is_scanned_value(runs[i].doc)),
                            ![i].pc = "blocks"]
    /\ UNCHANGED <<dir, notPair>>

\* pdf_processor.py lines 90-93: the selected extractor, over all pages.
run_extract_blocks(i) ==
    /\ runs[i].pc = "blocks"
    /\ IF extractor_for(runs[i].scanned[1]) = "ocr_to_blocks"
       THEN \E outs \in [1..Len(runs[i].doc) -> OcrOutputs] :
              runs' = [runs EXCEPT ![i].blocks = ocr_blocks_of(outs, 0),
                                   ![i].pc = "tables"]
       ELSE \E outs \in [1..Len(runs[i].doc) -> LayoutOutputs] :
              runs' = [runs EXCEPT ![i].blocks = layout_blocks_of(outs, 0),
                                   ![i].pc = "tables"]
    /\ UNCHANGED <<dir, notPair>>

\* pdf_processor.py lines 95-100
run_extract_tables(i) ==
    /\ runs[i].pc = "tables"
    /\ \E ts \in TableResults :
         runs' = [runs EXCEPT ![i].tables = ts, ![i].pc = "format"]
    /\ UNCHANGED <<dir, notPair>>

\* orchestrator.py lines 25-29
run_format_document(i) ==
    /\ runs[i].pc = "format"
    /\ runs' = [runs EXCEPT ![i].text = document_text(runs[i].blocks, runs[i].tables),
                            ![i].pc = "excel"]
    /\ UNCHANGED <<dir, notPair>>

\* orchestrator.py lines 38-40 and excel.py lines 10-20: to_excel writes the
\* file under the name drawn, replacing a file of that name.
run_create_excel(i) ==
    /\ runs[i].pc = "excel"
    /\ \E path \in ArtifactPaths :
        /\ dir' = [q \in DOMAIN dir \cup {path} |->
                     IF q = path
                     THEN [by |-> i, data |-> null_result(runs[i].fields)]
                     ELSE dir[q]]
        /\ runs' = [runs EXCEPT
                      ![i].result = Bound(with_excel_path(null_result(runs[i].fields),
                                                          path)),
                      ![i].pc = "returned"]
    /\ UNCHANGED notPair

\* A stage of the run raises.
run_raises(i) ==
    /\ runs[i].pc \in {"start", "blocks", "tables", "excel"}
    /\ runs' = [runs EXCEPT ![i].pc = "raised"]
    /\ UNCHANGED <<dir, notPair>>

NextPair ==
    \E i \in RunIds :
        \/ run_is_scanned(i)
        \/ run_extract_blocks(i)
        \/ run_extract_tables(i)
        \/ run_format_document(i)
        \/ run_create_excel(i)
        \/ run_raises(i)

SpecPair == InitPair /\ [][NextPair]_vars

\* The field map a run over the fields argument arg returns when it runs
\* alone: every requested field, or every default field, mapped to null.
AloneFieldMap(arg) ==
    LET fs == IF arg = Unbound \/ arg[1] = <<>> THEN DefaultFields ELSE arg[1]
    IN  [f \in {fs[k] : k \in DOMAIN fs} |-> None]

\* C16: when two runs for different documents, each on its own
\* orchestrator, have returned, each result holds the field map the run
\* returns alone, and the two artifacts are at different locations, each
\* holding its own run's data.
C16_RunsIndependent ==
    (\A i \in RunIds : runs[i].pc = "returned") =>
        /\ \A i \in RunIds :
             LET r == runs[i].result[1] IN
             /\ DOMAIN r = DOMAIN AloneFieldMap(runs[i].arg) \cup {"excel_path"}
             /\ \A f \in DOMAIN AloneFieldMap(runs[i].arg) : r[f] = None
             /\ r["excel_path"] \in DOMAIN dir
             /\ dir[r["excel_path"]].by = i
        /\ runs[1].result[1]["excel_path"] # runs[2].result[1]["excel_path"]

----------------------------------------------------------------------------
(* GET /extract/excel/download (download_excel) and POST /extract/send-email *)
(* (send_extraction_email): one request.                                     *)
(*                                                                           *)
(* A path argument is a sequence of tokens: a slash, a backslash, two dots,  *)
(* one dot, a space, or a name.                                              *)

Slash == "/"
Backslash == "\\"
DotDot == ".."
Dot == "."
PathAlphabet == {Slash, Backslash, DotDot, Dot, Space, "generated_excel", "a.xlsx"}
Paths == SeqsUpTo(PathAlphabet, MaxPath)

\* What exists below the working directory: nothing, or generated_excel/
\* with one artifact in it.
Disks == {{}, {<<"generated_excel">>, <<"generated_excel", "a.xlsx">>}}

\* ".." in path
has_dotdot(t) ==
    \E i \in DOMAIN t :
        \/ t[i] = DotDot
        \/ i < Len(t) /\ t[i] = Dot /\ t[i + 1] = Dot

\* path.startswith("/")
starts_with_slash(t) == t # <<>> /\ t[1] = Slash

\* Lines 131 and 154: not path or ".." in path or path.startswith("/")
first_check_rejects(t) == t = <<>> \/ has_dotdot(t) \/ starts_with_slash(t)

\* path.replace("\\", "/")
to_slashes(t) == [i \in DOMAIN t |-> IF t[i] = Backslash THEN Slash ELSE t[i]]

\* str.strip("/")
RECURSIVE strip_slashes(_)
strip_slashes(t) ==
    IF t # <<>> /\ t[1] = Slash THEN strip_slashes(Tail(t))
    ELSE IF t # <<>> /\ t[Len(t)] = Slash THEN strip_slashes(SubSeq(t, 1, Len(t) - 1))
    ELSE t

\* The pieces of a text between its slashes.
RECURSIVE pieces(_)
pieces(t) ==
    IF \A i \in DOMAIN t : t[i] # Slash THEN <<t>>
    ELSE LET i == CHOOSE k \in DOMAIN t :
                    t[k] = Slash /\ \A j \in 1..(k - 1) : t[j] # Slash
         IN  <<SubSeq(t, 1, i - 1)>> \o pieces(SubSeq(t, i + 1, Len(t)))

\* Path(text): pathlib keeps a root for a leading slash and drops the empty
\* and the "." components.
path_of(t) ==
    LET names == [i \in DOMAIN pieces(t) |-> join("", pieces(t)[i])]
    IN  [rooted |-> starts_with_slash(t),
         parts  |-> SelectSeq(names, LAMBDA n : n \notin {"", "."})]

\* Lines 133 and 156: Path(path.replace("\\", "/").strip("/"))
path_obj_of(t) == path_of(strip_slashes(to_slashes(t)))

\* Lines 134 and 157
second_check_rejects(p) == p.parts = <<>> \/ p.parts[1] # "generated_excel"

\* Path.exists(), relative to the working directory
exists(p) == ~p.rooted /\ p.parts \in disk

InitPaths ==
    /\ handler \in {"download_excel", "send_extraction_email"}
    /\ path_arg \in Paths
    /\ caller \in (IF handler = "download_excel"
                   THEN {Bound([auth |-> FALSE, email |-> ""])}
                   ELSE {Bound(u) : u \in Users})
    /\ disk \in Disks
    /\ fs_calls = <<>>
    /\ answer = Unbound
    /\ cacheIdle
    /\ pipeIdle /\ llmIdle /\ fmtIdle /\ hintIdle
    /\ parseIdle /\ formIdle /\ routerIdle /\ pairIdle

notPaths == <<pipeVars, llmVars, fmtVars, hintVars, parseVars, formVars,
              routerVars, pairVars, cacheVars>>

\* Lines 154-166, the checks and what follows them, for the path text t.
serve(t, on_found) ==
    IF first_check_rejects(t)
    THEN /\ answer' = Bound(HTTPException(400, "Invalid path"))
         /\ UNCHANGED fs_calls
    ELSE LET p == path_obj_of(t) IN
         IF second_check_rejects(p)
         THEN /\ answer' = Bound(HTTPException(400, "Invalid path"))
              /\ UNCHANGED fs_calls
         ELSE IF ~exists(p)
         THEN /\ answer' = Bound(HTTPException(404, "File not found"))
              /\ fs_calls' = <<[op |-> "exists", path |-> p]>>
         ELSE \E then \in on_found :
                /\ answer' = Bound([status |-> 200, detail |-> then.detail])
                /\ fs_calls' = <<[op |-> "exists", path |-> p]>>
                                \o [i \in DOMAIN then.ops |->
                                      [op |-> then.ops[i], path |-> p]]

\* Lines 148-166: FileResponse reads the file.
download_excel ==
    /\ handler = "download_excel" /\ answer = Unbound
    /\ serve(path_arg, {[detail |-> "file", ops |-> <<"read">>]})
    /\ UNCHANGED <<handler, path_arg, caller, disk, notPaths>>

\* Lines 123-145, send_excel_to_user (email_service.py lines 60-119): 401
\* without a user's address; the path is trimmed, checked, and the file
\* attached and sent when a mail backend is configured.
send_extraction_email ==
    /\ handler = "send_extraction_email" /\ answer = Unbound
    /\ IF ~(caller[1].auth /\ caller[1].email # "")
       THEN /\ answer' = Bound(HTTPException(401,
                               "Sign in to receive the report by email"))
            /\ UNCHANGED fs_calls
       ELSE serve(strip(path_arg),
                  {[detail |-> "email_not_configured", ops |-> <<>>],
                   [detail |-> "sent", ops |-> <<"exists", "read">>],
                   [detail |-> "send_failed", ops |-> <<"exists", "read">>]})
    /\ UNCHANGED <<handler, path_arg, caller, disk, notPaths>>

NextPaths == download_excel \/ send_extraction_email

SpecPaths == InitPaths /\ [][NextPaths]_vars

\* The path text a handler checks: the argument, which send_extraction_email
\* trims first.
Checked == IF handler = "send_extraction_email" THEN strip(path_arg) ELSE path_arg

Separators == {Slash, Backslash}

\* The text is rooted: it begins with a separator, of either kind.
Rooted(t) == t # <<>> /\ t[1] \in Separators

\* The first component of the text is generated_excel, components that are
\* empty or the current directory not counting.
UnderGeneratedExcel(t) ==
    \E i \in DOMAIN t :
        /\ t[i] = "generated_excel"
        /\ i = 1 \/ t[i - 1] \in Separators
        /\ i = Len(t) \/ t[i + 1] \in Separators
        /\ \A k \in 1..(i - 1) :
             \/ t[k] \in Separators
             \/ t[k] = Dot /\ (k = 1 \/ t[k - 1] \in Separators)
                           /\ t[k + 1] \in Separators

\* The path the claim lets through: relative, without "..", below
\* generated_excel.
Acceptable(t) ==
    t # <<>> /\ ~Rooted(t) /\ ~has_dotdot(t) /\ UnderGeneratedExcel(t)

\* C22: a request that got past authentication touches only relative paths
\* without ".." whose first component is generated_excel; for any other path
\* argument (empty, rooted with either separator, holding "..", or below
\* another directory) the answer is 400 and the file system is not touched,
\* and for an acceptable path that does not exist the answer is 404.
C22_OnlyGeneratedExcel ==
    (answer # Unbound /\ answer[1].status # 401) =>
        /\ \A i \in DOMAIN fs_calls :
             /\ ~fs_calls[i].path.rooted
             /\ fs_calls[i].path.parts # <<>>
             /\ fs_calls[i].path.parts[1] = "generated_excel"
             /\ \A k \in DOMAIN fs_calls[i].path.parts :
                  fs_calls[i].path.parts[k] # ".."
        /\ ~Acceptable(Checked) => answer[1].status = 400 /\ fs_calls = <<>>
        /\ (Acceptable(Checked) /\ disk = {}) => answer[1].status = 404

----------------------------------------------------------------------------
(* _get_public_key_for_kid and the JWKS cache (auth/dependencies.py).      *)
(* get_current_user is a coroutine that never awaits inside the function,  *)
(* so a call runs from its first line to its return without another call   *)
(* in between.                                                             *)

JWKS_CACHE_TTL_SEC == 300

Kids == {"k1", "k2"}
PublicKeys == {"pkA", "pkB"}

\* An entry of the JWKS document: its kid, its kty, and the public key its
\* x and y give ("bad" when _jwk_to_public_key raises on them).
Jwk(kid, kty, xy) == [kid |-> kid, kty |-> kty, xy |-> xy]

\* What the fetch of lines 63-68 gives: an exception, or the document's keys.
Fetches ==
    {[ok |-> FALSE, keys |-> <<>>]}
    \cup {[ok |-> TRUE, keys |-> ks] :
            ks \in {<<>>,
                    <<Jwk("k1", "EC", "pkA")>>,
                    <<Jwk("k1", "RSA", "pkA"), Jwk("k1", "EC", "pkB")>>,
                    <<Jwk("k1", "EC", "bad"), Jwk("k1", "EC", "pkA")>>,
                    <<Jwk("k1", "EC", "pkA"), Jwk("k2", "EC", "pkB")>>,
                    <<Jwk("k2", "RSA", "pkB")>>}}

\* Lines 71-79: the first entry with this kid and kty EC decides: its key,
\* or None when its conversion raises; None when there is no such entry.
RECURSIVE key_for(_, _)
key_for(keys, kid) ==
    IF keys = <<>> THEN None
    ELSE IF Head(keys).kid = kid /\ Head(keys).kty = "EC"
    THEN (IF Head(keys).xy = "bad" THEN None ELSE Head(keys).xy)
    ELSE key_for(Tail(keys), kid)

\* A cache that still serves an entry at its expiry time.
is_fresh_at_expiry(t, expiry) == t <= expiry

\* Line 56: now < expiry
is_fresh(t, expiry) == t < expiry

\* del _jwks_cache[kid]
without(cache, kid) == [k \in DOMAIN cache \ {kid} |-> cache[k]]

\* _jwks_cache[kid] = (pub_key, now + _JWKS_CACHE_TTL_SEC)
with_entry(cache, kid, key, t) ==
    [k \in DOMAIN cache \cup {kid} |->
        IF k = kid THEN [key |-> key, expiry |-> t + JWKS_CACHE_TTL_SEC]
        ELSE cache[k]]

InitJwks ==
    /\ jwks_url \in BOOLEAN
    /\ now = 0
    /\ jwks_cache = <<>>
    /\ last = Unbound
    /\ pathIdle
    /\ pipeIdle /\ llmIdle /\ fmtIdle /\ hintIdle
    /\ parseIdle /\ formIdle /\ routerIdle /\ pairIdle

notJwks == <<pipeVars, llmVars, fmtVars, hintVars, parseVars, formVars,
             routerVars, pairVars, pathVars>>

\* What a call leaves in the log.
called(kid, key, from_cache, fetch) ==
    Bound([kid |-> kid, at |-> now, key |-> key, from_cache |-> from_cache,
           fetch |-> fetch, before |-> jwks_cache])

\* Lines 51-79, one call.
get_public_key_for_kid(kid) ==
    /\ IF kid \in DOMAIN jwks_cache /\ is_fresh(now, jwks_cache[kid].expiry)
       THEN /\ last' = called(kid, jwks_cache[kid].key, TRUE, Unbound)
            /\ UNCHANGED jwks_cache
       ELSE LET purged == without(jwks_cache, kid) IN
            IF ~jwks_url
            THEN /\ last' = called(kid, None, FALSE, Unbound)
                 /\ jwks_cache' = purged
            ELSE \E f \in Fetches :
                   LET key == IF f.ok THEN key_for(f.keys, kid) ELSE None IN
                   /\ last' = called(kid, key, FALSE, Bound(f))
                   /\ jwks_cache' = IF key = None THEN purged
                                    ELSE with_entry(purged, kid, key, now)
    /\ UNCHANGED <<jwks_url, now, notJwks>>

\* time.time() moves on.
time_passes ==
    /\ now < MaxClock * 100
    /\ now' = now + 100
    /\ UNCHANGED <<jwks_url, jwks_cache, last, notJwks>>

NextJwks ==
    \/ \E kid \in Kids : get_public_key_for_kid(kid)
    \/ time_passes

SpecJwks == InitJwks /\ [][NextJwks]_vars

\* The fetch found an EC key with this kid whose conversion went through.
FoundKey(fetch, kid) ==
    /\ fetch.ok
    /\ \E i \in DOMAIN fetch.keys :
         /\ fetch.keys[i].kid = kid /\ fetch.keys[i].kty = "EC"
         /\ fetch.keys[i].xy \in PublicKeys

\* C23: the last call served its key from the cache only when the time was
\* strictly before the entry's expiry; on an expired entry it removed the
\* entry and, with a JWKS URL, fetched; a fetch that failed or found no
\* matching EC key returned no key and left no entry for the kid, the
\* other entries as they were; and an entry's expiry is the time of the
\* fetch that made it plus 300 seconds.
C23_CacheServesUntilExpiry ==
    /\ \A k \in DOMAIN jwks_cache :
         /\ jwks_cache[k].expiry <= now + 300
         /\ jwks_cache[k].key \in PublicKeys
    /\ last # Unbound =>
         LET c == last[1]
             had == c.kid \in DOMAIN c.before
         IN  /\ c.from_cache =>
                  /\ had /\ c.at < c.before[c.kid].expiry
                  /\ c.key = c.before[c.kid].key
                  /\ c.fetch = Unbound
                  /\ jwks_cache = c.before
             /\ (had /\ c.at >= c.before[c.kid].expiry) =>
                  /\ ~c.from_cache
                  /\ jwks_url => c.fetch # Unbound
                  /\ c.kid \in DOMAIN jwks_cache =>
                       jwks_cache[c.kid].expiry = c.at + 300
             /\ (~c.from_cache /\ (c.fetch = Unbound \/ ~FoundKey(c.fetch[1], c.kid))) =>
                  /\ c.key = None
                  /\ c.kid \notin DOMAIN jwks_cache
                  /\ \A k \in Kids \ {c.kid} :
                       /\ k \in DOMAIN jwks_cache <=> k \in DOMAIN c.before
                       /\ k \in DOMAIN jwks_cache => jwks_cache[k] = c.before[k]
             /\ (~c.from_cache /\ c.key # None) =>
                  /\ c.fetch # Unbound
                  /\ jwks_cache[c.kid] = [key |-> c.key, expiry |-> c.at + 300]

\* C23's case: a call at the very second an entry expires; the entry was not
\* served, the fetch failed, and the entry is gone.
C23_Witness ==
    /\ last # Unbound
    /\ last[1].kid \in DOMAIN last[1].before
    /\ last[1].at = last[1].before[last[1].kid].expiry
    /\ last[1].fetch # Unbound /\ ~last[1].fetch[1].ok
    /\ last[1].kid \notin DOMAIN jwks_cache


=============================================================================
